---- MODULE Spec2Model ----
(***************************************************************************)
(* A model of mkcd (github.com/mochajutsu/mkcd): the configuration store   *)
(* and its profile registry, the profile/flag merger, the path validator   *)
(* and the orchestrated run of executeMkcd.                                *)
(*                                                                         *)
(* Strings that the code inspects character by character (paths) are       *)
(* sequences of one-character strings: "/etc" is <<"/", "e", "t", "c">>;   *)
(* the model abbreviates directory names to one or two letters.            *)
(***************************************************************************)
EXTENDS Integers, Sequences, FiniteSets, TLC

VARIABLES
    \* ---- path validator (ValidatePath and determineTargetPath)
    rawPath,      \* the path or directory name given by the caller
    pv,           \* the PathValidator: [ForbiddenPaths, MaxDepth]
    cwd,          \* the process's working directory (os.Getwd)
    vres,         \* the outcome of the last validation, or NoResult
    \* ---- merger (mergeConfigWithFlags)
    flags,        \* the command-line flags of the invocation (package cmd globals)
    profileConfig,\* the ProfileConfig runMkcd selected
    mkcdConfig,   \* the merged MkcdConfig, or NoPlan before the merge
    \* ---- configuration store and the profile commands
    cfgFile,      \* the configuration file on disk
    cfg,          \* the Config in memory of the last command, or NoConfig
    cmd,          \* the last profile command: its arguments and how it ended
    \* ---- the orchestrated run (executeMkcd)
    fs,           \* the filesystem at and below the target path
    fs0,          \* the filesystem as the run found it
    editors,      \* the editor processes the run has started
    pc,           \* the step executeMkcd is at
    ti,           \* the touch files handled so far
    log,          \* what each step did or reported, in order
    exit,         \* "running", or how the run ended: "ok" or "error"
    \* ---- the prompts of a command (OutputManager.Confirm, Select, Input)
    prompt,       \* the command, the prompts it has got through, whether it waits
    \* ---- profile commands that run at the same time
    inv           \* each invocation: its command, its position, the Config it holds

pathVars == <<rawPath, pv, cwd, vres>>

mergeVars == <<flags, profileConfig, mkcdConfig>>

storeVars == <<cfgFile, cfg, cmd>>

runVars == <<fs, fs0, editors, pc, ti, log, exit>>

\* what the actions of one component leave alone
notPath == <<mergeVars, storeVars, runVars, prompt, inv>>

notMerge == <<pathVars, storeVars, runVars, prompt, inv>>

notStore == <<pathVars, mergeVars, runVars, prompt, inv>>

vars == <<rawPath, pv, cwd, vres, flags, profileConfig, mkcdConfig, cfgFile, cfg, cmd,
          fs, fs0, editors, pc, ti, log, exit, prompt, inv>>

-----------------------------------------------------------------------------
(* Bounds of the model *)

\* the longest raw path, in '/'-separated elements (empty elements included)
MaxSegs == 3

-----------------------------------------------------------------------------
(* strings: the functions of package strings and path/filepath the code uses *)

Sep == "/"

\* the root directory
Root == <<Sep>>

\* strings.HasPrefix
HasPrefix(s, p) ==
    /\ Len(p) <= Len(s)
    /\ SubSeq(s, 1, Len(p)) = p

\* strings.Contains
Contains(s, sub) ==
    \E i \in 1..(Len(s) - Len(sub) + 1) : SubSeq(s, i, i + Len(sub) - 1) = sub

\* strings.Count(s, c) for a one-character c
Count(s, c) == Cardinality({i \in 1..Len(s) : s[i] = c})

\* filepath.IsAbs (Unix)
IsAbs(p) == Len(p) > 0 /\ p[1] = Sep

\* strings.Split(s, "/"): the elements between separators, empty ones kept
RECURSIVE SplitFrom(_, _, _)
SplitFrom(s, i, cur) ==
    IF i > Len(s) THEN <<cur>>
    ELSE IF s[i] = Sep THEN <<cur>> \o SplitFrom(s, i + 1, <<>>)
    ELSE SplitFrom(s, i + 1, Append(cur, s[i]))

Split(s) == SplitFrom(s, 1, <<>>)

\* strings.Join(elems, "/")
RECURSIVE JoinSep(_)
JoinSep(elems) ==
    IF Len(elems) = 0 THEN <<>>
    ELSE IF Len(elems) = 1 THEN elems[1]
    ELSE elems[1] \o <<Sep>> \o JoinSep(Tail(elems))

DotDot == <<".", ".">>
Dot == <<".">>

\* the element stack of filepath.Clean: "" and "." are dropped, ".." removes
\* the element before it, is dropped at the root and kept when nothing precedes
RECURSIVE CleanElems(_, _, _)
CleanElems(elems, out, rooted) ==
    IF Len(elems) = 0 THEN out
    ELSE LET e == Head(elems)
             rest == Tail(elems)
         IN  IF e = <<>> \/ e = Dot THEN CleanElems(rest, out, rooted)
             ELSE IF e = DotDot
                  THEN IF Len(out) > 0 /\ out[Len(out)] # DotDot
                       THEN CleanElems(rest, SubSeq(out, 1, Len(out) - 1), rooted)
                       ELSE IF rooted THEN CleanElems(rest, out, rooted)
                       ELSE CleanElems(rest, Append(out, e), rooted)
             ELSE CleanElems(rest, Append(out, e), rooted)

\* filepath.Clean
Clean(path) ==
    IF Len(path) = 0 THEN Dot
    ELSE LET rooted == IsAbs(path)
             body == JoinSep(CleanElems(Split(path), <<>>, rooted))
         IN  IF rooted THEN <<Sep>> \o body
             ELSE IF Len(body) = 0 THEN Dot ELSE body

\* filepath.Join(a, b): the non-empty arguments joined by a separator, cleaned
FilepathJoin(a, b) ==
    IF Len(a) = 0 /\ Len(b) = 0 THEN <<>>
    ELSE IF Len(a) = 0 THEN Clean(b)
    ELSE IF Len(b) = 0 THEN Clean(a)
    ELSE Clean(a \o <<Sep>> \o b)

\* the user's home directory (os.UserHomeDir)
HomeDir == <<"/", "h">>

\* filepath.Abs: a relative path is joined to the working directory
FilepathAbs(path, wd) == IF IsAbs(path) THEN Clean(path) ELSE FilepathJoin(wd, path)

-----------------------------------------------------------------------------
(* internal/utils: path helpers and the PathValidator *)

\* GetAbsolutePath: "~/" is expanded to the home directory, then filepath.Abs
GetAbsolutePath(path, wd) ==
    IF HasPrefix(path, <<"~", Sep>>)
    THEN FilepathAbs(FilepathJoin(HomeDir, SubSeq(path, 3, Len(path))), wd)
    ELSE FilepathAbs(path, wd)

\* SanitizePath: the path is cleaned first, and the cleaned path is then
\* searched for ".." and compared with the empty path
SanitizePath(path) ==
    LET cleaned == Clean(path)
    IN  IF Contains(cleaned, DotDot) THEN [err |-> "dotdot", clean |-> <<>>]
        ELSE IF cleaned = <<>> \/ cleaned = Dot THEN [err |-> "empty", clean |-> <<>>]
        ELSE [err |-> "ok", clean |-> cleaned]

\* checkForbiddenPaths: TRUE when the path is refused
checkForbiddenPathsNoSep(v, absPath) ==
    \E i \in 1..Len(v.ForbiddenPaths) :
        LET forbidden == v.ForbiddenPaths[i]
        IN  absPath = forbidden \/ HasPrefix(absPath, forbidden)

checkForbiddenPaths(v, absPath) ==
    \E i \in 1..Len(v.ForbiddenPaths) :
        LET forbidden == v.ForbiddenPaths[i]
        IN  \/ absPath = forbidden
            \/ HasPrefix(absPath, forbidden \o <<Sep>>)

\* the depth checkPathDepth computes: the separators of the path, the root
\* separator of an absolute path not counted
PathDepth(path) == Count(path, Sep) - (IF IsAbs(path) THEN 1 ELSE 0)

\* checkPathDepth: TRUE when the path is refused
checkPathDepth(v, path) == PathDepth(path) > v.MaxDepth

\* checkDangerousCharacters: TRUE when the path is refused. The patterns are
\* a null byte, one of <>:"|?*, leading or trailing whitespace, three dots
checkDangerousCharacters(path) ==
    \/ \E i \in 1..Len(path) : path[i] \in {"\\0", "<", ">", ":", "\"", "|", "?", "*"}
    \/ Len(path) > 0 /\ (path[1] = " " \/ path[Len(path)] = " ")
    \/ Contains(path, <<".", ".", ".">>)

\* ValidatePath: sanitize, absolute path, forbidden paths, depth, characters;
\* the first failure is returned
ValidatePathDepthFirst(v, path, wd) ==
    LET san == SanitizePath(path)
        absPath == GetAbsolutePath(san.clean, wd)
    IN  IF san.err # "ok" THEN [err |-> san.err, clean |-> <<>>, abs |-> <<>>]
        ELSE IF checkPathDepth(v, san.clean)
             THEN [err |-> "depth", clean |-> san.clean, abs |-> absPath]
        ELSE IF checkForbiddenPaths(v, absPath)
             THEN [err |-> "forbidden", clean |-> san.clean, abs |-> absPath]
        ELSE IF checkDangerousCharacters(san.clean)
             THEN [err |-> "chars", clean |-> san.clean, abs |-> absPath]
        ELSE [err |-> "ok", clean |-> san.clean, abs |-> absPath]

ValidatePath(v, path, wd) ==
    LET san == SanitizePath(path)
        absPath == GetAbsolutePath(san.clean, wd)
    IN  IF san.err # "ok" THEN [err |-> san.err, clean |-> <<>>, abs |-> <<>>]
        ELSE IF checkForbiddenPaths(v, absPath)
             THEN [err |-> "forbidden", clean |-> san.clean, abs |-> absPath]
        ELSE IF checkPathDepth(v, san.clean)
             THEN [err |-> "depth", clean |-> san.clean, abs |-> absPath]
        ELSE IF checkDangerousCharacters(san.clean)
             THEN [err |-> "chars", clean |-> san.clean, abs |-> absPath]
        ELSE [err |-> "ok", clean |-> san.clean, abs |-> absPath]

\* Core.TempDir of DefaultConfig ("/tmp/mkcd")
DefaultTempDir == <<"/", "t", "/", "m">>

\* determineTargetPath: the directory name joined to the temporary directory
\* or to the working directory, made absolute
determineTargetPath(dirName, temp, tempDir, wd) ==
    GetAbsolutePath(FilepathJoin(IF temp THEN tempDir ELSE wd, dirName), wd)

-----------------------------------------------------------------------------
(* cmd: the flags of the mkcd command and mergeConfigWithFlags *)

\* config.ProfileConfig{}: the empty profile
EmptyProfile ==
    [Git |-> FALSE, Editor |-> FALSE, Readme |-> FALSE, Gitignore |-> "",
     Template |-> "", Touch |-> <<>>, License |-> ""]

\* the flags as cobra leaves them when none is given (init of mkcd.go and of
\* the root command)
NoFlags ==
    [gitInit |-> FALSE, gitRemote |-> "", template |-> "", editorName |-> "",
     editorFlag |-> FALSE, touchFiles |-> <<>>, readme |-> FALSE,
     gitignore |-> "", license |-> "", mode |-> "", parentMode |-> "",
     symlink |-> "", temp |-> FALSE, expire |-> "",
     dryRun |-> FALSE, force |-> FALSE, interactive |-> FALSE, quiet |-> FALSE,
     backup |-> FALSE, profile |-> ""]

NoPlan == [merged |-> FALSE]

IdleMerge ==
    /\ flags = NoFlags
    /\ profileConfig = EmptyProfile
    /\ mkcdConfig = NoPlan

\* the boolean fields of the merged configuration
mergedBoolsFlagOnly(p, f) ==
    [Git |-> f.gitInit, Editor |-> f.editorFlag \/ (f.editorName # ""),
     Readme |-> f.readme]

mergedBools(p, f) ==
    [Git |-> f.gitInit \/ p.Git,
     Editor |-> f.editorFlag \/ p.Editor \/ (f.editorName # ""),
     Readme |-> f.readme \/ p.Readme]

\* the string and list fields a profile can also set: the flag's value, and
\* the profile's when the flag's is empty
mergedFallbacksAppend(p, f) ==
    [Template |-> IF f.template = "" THEN p.Template ELSE f.template,
     Gitignore |-> IF f.gitignore = "" THEN p.Gitignore ELSE f.gitignore,
     License |-> IF f.license = "" THEN p.License ELSE f.license,
     Touch |-> f.touchFiles \o p.Touch]

mergedFallbacks(p, f) ==
    [Template |-> IF f.template = "" THEN p.Template ELSE f.template,
     Gitignore |-> IF f.gitignore = "" THEN p.Gitignore ELSE f.gitignore,
     License |-> IF f.license = "" THEN p.License ELSE f.license,
     Touch |-> IF Len(f.touchFiles) = 0 THEN p.Touch ELSE f.touchFiles]

\* mergeConfigWithFlags
mergeConfigWithFlags(p, f) ==
    [merged |-> TRUE,
     Git |-> mergedBools(p, f).Git,
     GitRemote |-> f.gitRemote,
     Template |-> mergedFallbacks(p, f).Template,
     Editor |-> mergedBools(p, f).Editor,
     Readme |-> mergedBools(p, f).Readme,
     Gitignore |-> mergedFallbacks(p, f).Gitignore,
     License |-> mergedFallbacks(p, f).License,
     Touch |-> mergedFallbacks(p, f).Touch,
     Mode |-> f.mode,
     ParentMode |-> f.parentMode,
     Symlink |-> f.symlink,
     Temp |-> f.temp,
     Expire |-> f.expire]

\* the built-in profiles of DefaultConfig
ProfileDefault == EmptyProfile

ProfileDev ==
    [Git |-> TRUE, Editor |-> TRUE, Readme |-> TRUE, Gitignore |-> "general",
     Template |-> "basic-dev", Touch |-> <<>>, License |-> ""]

ProfileNodejs ==
    [Git |-> TRUE, Editor |-> TRUE, Readme |-> FALSE, Gitignore |-> "node",
     Template |-> "nodejs", Touch |-> <<"package.json", "index.js">>, License |-> ""]

ProfilePython ==
    [Git |-> TRUE, Editor |-> TRUE, Readme |-> FALSE, Gitignore |-> "python",
     Template |-> "python", Touch |-> <<"main.py", "requirements.txt">>, License |-> ""]

-----------------------------------------------------------------------------
(* internal/config: the Config, its file, and the profile registry *)

\* the profiles DefaultConfig registers
DefaultProfiles ==
    [n \in {"default", "dev", "nodejs", "python"} |->
        CASE n = "default" -> ProfileDefault
          [] n = "dev" -> ProfileDev
          [] n = "nodejs" -> ProfileNodejs
          [] n = "python" -> ProfilePython]

\* DefaultConfig: the fields Validate and the profile registry read
DefaultConfig ==
    [DefaultProfile |-> "default",
     HistoryLimit |-> 100,
     MaxDepth |-> 10,
     ForbiddenPaths |-> << Root, <<"/", "u">>, <<"/", "e">>, <<"/", "v">>,
                           <<"/", "b">>, <<"/", "s">> >>,
     Profiles |-> DefaultProfiles]

\* toml.DecodeFile into DefaultConfig(): a key of the file replaces the
\* default's value, a key the file lacks leaves it; a profile table of the
\* file is added to the map DefaultConfig made, whose other entries stay.
\* A key of the file is a set: empty when the file lacks it, else its value
Decode(content) ==
    LET pick(key, dflt) == IF key = {} THEN dflt ELSE CHOOSE x \in key : TRUE
    IN  [DefaultProfile |-> pick(content.default_profile, DefaultConfig.DefaultProfile),
         HistoryLimit |-> pick(content.history_limit, DefaultConfig.HistoryLimit),
         MaxDepth |-> pick(content.max_depth, DefaultConfig.MaxDepth),
         ForbiddenPaths |-> pick(content.forbidden_paths, DefaultConfig.ForbiddenPaths),
         Profiles |-> content.profiles @@ DefaultConfig.Profiles]

\* toml.Encoder.Encode: every field of the Config is written
Encode(c) ==
    [default_profile |-> {c.DefaultProfile},
     history_limit |-> {c.HistoryLimit},
     max_depth |-> {c.MaxDepth},
     forbidden_paths |-> {c.ForbiddenPaths},
     profiles |-> c.Profiles]

\* Config.Validate: "" when valid, else the first rule broken
Validate(c) ==
    IF c.HistoryLimit < 0 THEN "history_limit"
    ELSE IF c.MaxDepth < 1 THEN "max_depth"
    ELSE IF c.DefaultProfile # "" /\ c.DefaultProfile \notin DOMAIN c.Profiles
         THEN "default_profile"
    ELSE IF \E i \in 1..Len(c.ForbiddenPaths) : ~IsAbs(c.ForbiddenPaths[i])
         THEN "forbidden_paths"
    ELSE ""

NoConfig == [none |-> TRUE]

\* config.Load: the defaults when there is no file, an error when the file
\* does not parse or does not validate
LoadUnvalidated(file) ==
    IF ~file.exists THEN [err |-> "", cfg |-> DefaultConfig]
    ELSE IF ~file.parses THEN [err |-> "parse", cfg |-> NoConfig]
    ELSE [err |-> "", cfg |-> Decode(file.content)]

Load(file) ==
    IF ~file.exists THEN [err |-> "", cfg |-> DefaultConfig]
    ELSE IF ~file.parses THEN [err |-> "parse", cfg |-> NoConfig]
    ELSE LET c == Decode(file.content)
         IN  IF Validate(c) # "" THEN [err |-> "invalid", cfg |-> NoConfig]
             ELSE [err |-> "", cfg |-> c]

\* Config.Save, when the file can be written
Save(c) == [exists |-> TRUE, parses |-> TRUE, content |-> Encode(c)]

\* Config.GetProfile
GetProfileNoDefault(c, name) ==
    IF name \in DOMAIN c.Profiles THEN [err |-> "", profile |-> c.Profiles[name]]
    ELSE [err |-> "notfound", profile |-> EmptyProfile]

GetProfile(c, name) ==
    LET n == IF name = "" THEN c.DefaultProfile ELSE name
    IN  IF n \in DOMAIN c.Profiles THEN [err |-> "", profile |-> c.Profiles[n]]
        ELSE [err |-> "notfound", profile |-> EmptyProfile]

\* Config.SetProfile
SetProfileAlone(c, name, profile) ==
    [c EXCEPT !.Profiles = (name :> profile)]

SetProfile(c, name, profile) ==
    [c EXCEPT !.Profiles = (name :> profile) @@ c.Profiles]

\* the registry without one name
Without(profiles, name) == [n \in (DOMAIN profiles) \ {name} |-> profiles[n]]

\* Config.DeleteProfile
DeleteProfileUnguarded(c, name) ==
    IF name \notin DOMAIN c.Profiles THEN [err |-> "missing", cfg |-> c]
    ELSE [err |-> "", cfg |-> [c EXCEPT !.Profiles = Without(c.Profiles, name)]]

DeleteProfileThenRefuse(c, name) ==
    IF name \notin DOMAIN c.Profiles THEN [err |-> "missing", cfg |-> c]
    ELSE [err |-> IF name = c.DefaultProfile THEN "conflict" ELSE "",
          cfg |-> [c EXCEPT !.Profiles = Without(c.Profiles, name)]]

DeleteProfile(c, name) ==
    IF name = c.DefaultProfile THEN [err |-> "conflict", cfg |-> c]
    ELSE IF name \notin DOMAIN c.Profiles THEN [err |-> "missing", cfg |-> c]
    ELSE [err |-> "", cfg |-> [c EXCEPT !.Profiles = Without(c.Profiles, name)]]

-----------------------------------------------------------------------------
(* the filesystem, git and editor operations of a run. Each takes the
   filesystem f and returns [err, how, fs]: err is "" on success; how is
   "dry" (a [DRY RUN] report), "noop" (nothing to do), "did" (the effect was
   performed) or "fail"; oserr chooses whether the operating system refuses
   the call *)

\* the files a run may write below the target
DocNames == {"README.md", ".gitignore", "LICENSE"}

RunTouchNames == {"a.txt", "b.txt"}

FileNames == RunTouchNames \cup DocNames

\* a target path that does not exist
FreshFs ==
    [target |-> "absent", files |-> [n \in FileNames |-> "absent"],
     backups |-> {}, src |-> FALSE, repo |-> FALSE, remote |-> "",
     commits |-> 0, dirty |-> FALSE]

Ok(how, f) == [err |-> "", how |-> how, fs |-> f]

Failed(err, f) == [err |-> err, how |-> "fail", fs |-> f]

\* FileSystemOperations.CreateDirectory
CreateDirectoryNoDryRun(fsOps, f, oserr) ==
    IF f.target = "dir" THEN Ok("noop", f)
    ELSE IF f.target # "absent" THEN Failed("path exists but is not a directory", f)
    ELSE IF oserr THEN Failed("failed to create directory", f)
    ELSE Ok("did", [f EXCEPT !.target = "dir"])

CreateDirectoryAnyExisting(fsOps, f, oserr) ==
    IF fsOps.DryRun THEN Ok("dry", f)
    ELSE IF f.target # "absent" THEN Ok("noop", f)
    ELSE IF oserr THEN Failed("failed to create directory", f)
    ELSE Ok("did", [f EXCEPT !.target = "dir"])

CreateDirectory(fsOps, f, oserr) ==
    IF fsOps.DryRun THEN Ok("dry", f)
    ELSE IF f.target = "dir" THEN Ok("noop", f)
    ELSE IF f.target # "absent" THEN Failed("path exists but is not a directory", f)
    ELSE IF oserr THEN Failed("failed to create directory", f)
    ELSE Ok("did", [f EXCEPT !.target = "dir"])

\* FileSystemOperations.CreateFile: an existing file is backed up when Backup
\* is set, the parent directory is made, the file is opened with O_TRUNC and
\* the content written
CreateFile(fsOps, f, name, content, oserr) ==
    IF fsOps.DryRun THEN Ok("dry", f)
    ELSE LET f1 == IF fsOps.Backup /\ f.files[name] # "absent"
                   THEN [f EXCEPT !.backups = @ \cup {name}]
                   ELSE f
         IN  IF f1.target = "file" THEN Failed("failed to create parent directory", f1)
             ELSE IF oserr THEN Failed("failed to create file", f1)
             ELSE Ok("did", [f1 EXCEPT !.target = IF @ = "absent" THEN "dir" ELSE @,
                                       !.files[name] = content,
                                       !.dirty = TRUE])

\* os.Remove(linkPath) succeeds on a file, a link or an empty directory
EmptyDir(f) == \A n \in FileNames : f.files[n] = "absent"

\* FileSystemOperations.CreateSymlink: what the link path shows afterwards is
\* the link's target, an empty directory
CreateSymlink(fsOps, f, oserr) ==
    IF fsOps.DryRun THEN Ok("dry", f)
    ELSE IF ~f.src THEN Failed("symlink target does not exist", f)
    ELSE IF f.target # "absent" /\ (oserr \/ (f.target = "dir" /\ (~EmptyDir(f) \/ f.repo)))
         THEN Failed("failed to remove existing symlink", f)
    ELSE IF oserr THEN Failed("failed to create symlink", f)
    ELSE Ok("did", [f EXCEPT !.target = "link"])

\* GitManager.InitRepository
InitRepository(gm, f, oserr) ==
    IF gm.DryRun THEN Ok("dry", f)
    ELSE IF f.repo THEN Ok("noop", f)
    ELSE IF oserr THEN Failed("failed to initialize Git repository", f)
    ELSE Ok("did", [f EXCEPT !.repo = TRUE,
                             !.target = IF @ = "absent" THEN "dir" ELSE @])

\* GitManager.AddRemote: a remote of that name that exists already is left as it is
AddRemote(gm, f, remoteURL, oserr) ==
    IF gm.DryRun THEN Ok("dry", f)
    ELSE IF ~f.repo THEN Failed("failed to open Git repository", f)
    ELSE IF f.remote # "" THEN Ok("noop", f)
    ELSE IF oserr THEN Failed("failed to add remote", f)
    ELSE Ok("did", [f EXCEPT !.remote = remoteURL])

\* GitManager.CreateInitialCommit
CreateInitialCommit(gm, f, oserr) ==
    IF gm.DryRun THEN Ok("dry", f)
    ELSE IF ~f.repo THEN Failed("failed to open Git repository", f)
    ELSE IF oserr THEN Failed("failed to create commit", f)
    ELSE IF ~f.dirty THEN Ok("noop", f)
    ELSE Ok("did", [f EXCEPT !.commits = 1, !.dirty = FALSE])

\* EditorLauncher.Launch, called by openInEditor with CreateMissing = dryRun:
\* preparePath, the choice of the editor (found or not), launchWithOptions
\* (started or not, and whether a terminal editor exits with an error).
\* Returns [err, how, started]
Launch(el, f, found, oserr, exitErr) ==
    IF f.target = "absent" /\ ~el.DryRun
    THEN [err |-> "path does not exist", how |-> "fail", started |-> 0]
    ELSE IF ~found THEN [err |-> "editor not found", how |-> "fail", started |-> 0]
    ELSE IF el.DryRun THEN [err |-> "", how |-> "dry", started |-> 0]
    ELSE IF oserr THEN [err |-> "failed to start", how |-> "fail", started |-> 0]
    ELSE IF exitErr THEN [err |-> "exited with error", how |-> "fail", started |-> 1]
    ELSE [err |-> "", how |-> "did", started |-> 1]

\* the file each document is written to
DocFile(step) ==
    CASE step = "readme" -> "README.md"
      [] step = "gitignore" -> ".gitignore"
      [] step = "license" -> "LICENSE"

\* FileGenerator.GenerateReadme, GenerateGitignore, GenerateLicense: the
\* content is made and written through the FileSystemOperations it was given
GenerateDocument(fsOps, f, step, oserr) ==
    CreateFile(fsOps, f, DocFile(step), "generated", oserr)

-----------------------------------------------------------------------------
(* cmd: the run of the mkcd command, runMkcd and executeMkcd, one action per
   step. pc is the step the run is at; log records what each step did *)

\* the statements of executeMkcd, in the order the code has them
StepOrderGitFirst ==
    << "resolve", "validate", "confirm", "mkdir", "touch",
       "gitinit", "remote", "commit", "readme", "gitignore", "license",
       "editor", "emit" >>

StepOrder ==
    << "resolve", "validate", "confirm", "mkdir", "touch",
       "readme", "gitignore", "license", "gitinit", "remote", "commit",
       "editor", "emit" >>

\* the conditions under which executeMkcd and its helpers run a step
PlannedTouchOnLink(step, plan, f) ==
    CASE step = "confirm" -> f.interactive /\ ~f.dryRun
      [] step = "touch" -> Len(plan.Touch) > 0
      [] step = "readme" -> plan.Readme
      [] step = "gitignore" -> plan.Gitignore # ""
      [] step = "license" -> plan.License # ""
      [] step = "gitinit" -> plan.Git
      [] step = "remote" -> plan.Git /\ plan.GitRemote # ""
      [] step = "commit" -> plan.Git
      [] step = "editor" -> plan.Editor
      [] OTHER -> TRUE

Planned(step, plan, f) ==
    CASE step = "confirm" -> f.interactive /\ ~f.dryRun
      [] step = "touch" -> plan.Symlink = "" /\ Len(plan.Touch) > 0
      [] step = "readme" -> plan.Readme
      [] step = "gitignore" -> plan.Gitignore # ""
      [] step = "license" -> plan.License # ""
      [] step = "gitinit" -> plan.Git
      [] step = "remote" -> plan.Git /\ plan.GitRemote # ""
      [] step = "commit" -> plan.Git
      [] step = "editor" -> plan.Editor
      [] OTHER -> TRUE

\* the step the run goes to when step has finished without a hard failure
NextAfter(step, plan, f) ==
    LET i == CHOOSE k \in DOMAIN StepOrder : StepOrder[k] = step
        later == {j \in (i + 1)..Len(StepOrder) : Planned(StepOrder[j], plan, f)}
    IN  IF later = {} THEN "done"
        ELSE StepOrder[CHOOSE j \in later : \A k \in later : j <= k]

\* executeMkcd on the outcome of ValidatePath: return the error, or warn and
\* go on because of --force, or go on
ValidationGateNeverAborts(verr, force) ==
    IF verr # "ok" THEN "warn" ELSE "pass"

ValidationGate(verr, force) ==
    IF verr # "ok" /\ ~force THEN "abort"
    ELSE IF verr # "ok" THEN "warn"
    ELSE "pass"

\* one line of the log. shown: whether the step's message reaches the
\* terminal. [DRY RUN] reports, warnings and errors go through pterm, which
\* --quiet disables; the messages of performed steps are debug messages; the
\* final "cd" line is printed with fmt.Printf
Entry(step, how, arg, f) ==
    [step |-> step, how |-> how, arg |-> arg,
     shown |-> IF step = "emit" THEN TRUE
               ELSE IF how \in {"dry", "warn", "fail", "cancel"} THEN ~f.quiet
               ELSE FALSE]

\* utils.NewOutputManager(..., quiet, ...)
NewOutputManager(f) == [Quiet |-> f.quiet]

\* OutputManager.Confirm, Select and Input. input is what the terminal
\* delivers when the prompt is shown: an answer, or "error". Each returns
\* [asked, value, err]: asked tells whether the prompt was shown and waited on
ConfirmIgnoresQuiet(om, defaultValue, input) ==
    IF input = "error"
    THEN [asked |-> TRUE, value |-> defaultValue,
          err |-> "failed to get user confirmation"]
    ELSE [asked |-> TRUE, value |-> (input = "yes"), err |-> ""]

Confirm(om, defaultValue, input) ==
    IF om.Quiet THEN [asked |-> FALSE, value |-> defaultValue, err |-> ""]
    ELSE IF input = "error"
    THEN [asked |-> TRUE, value |-> defaultValue,
          err |-> "failed to get user confirmation"]
    ELSE [asked |-> TRUE, value |-> (input = "yes"), err |-> ""]

Select(om, options, input) ==
    IF om.Quiet
    THEN IF Len(options) > 0 THEN [asked |-> FALSE, value |-> options[1], err |-> ""]
         ELSE [asked |-> FALSE, value |-> "", err |-> "no options available"]
    ELSE IF input = "error"
    THEN [asked |-> TRUE, value |-> "", err |-> "failed to get user selection"]
    ELSE [asked |-> TRUE, value |-> input, err |-> ""]

Input(om, defaultValue, input) ==
    IF om.Quiet THEN [asked |-> FALSE, value |-> defaultValue, err |-> ""]
    ELSE IF input = "error"
    THEN [asked |-> TRUE, value |-> defaultValue, err |-> "failed to get user input"]
    ELSE [asked |-> TRUE, value |-> input, err |-> ""]

\* utils.NewFileSystemOperations(dryRun, backup || cfg.Core.BackupEnabled)
NewFileSystemOperations(f) == [DryRun |-> f.dryRun, Backup |-> f.backup]

\* git.NewGitManager(dryRun, ...), editor.NewEditorLauncher(dryRun, ...)
NewManager(f) == [DryRun |-> f.dryRun]

-----------------------------------------------------------------------------
(* the inputs of the path validator *)

\* the elements raw paths are built from: empty (a leading, doubled or
\* trailing separator), ".", "..", "~", plain names, a name with a '*'
SegSet ==
    { <<>>, Dot, DotDot, <<"~">>, <<"e">>, <<"x">>, <<"e", "x">>, <<"e", "*">> }

RawPaths == { JoinSep(q) : q \in UNION { [1..n -> SegSet] : n \in 1..MaxSegs } }

\* forbidden-path lists; "/e" stands for "/etc" and "/ex" is its sibling.
\* The first is DefaultConfig's list cut down to "/" and "/etc"
ForbiddenLists ==
    { << Root, <<"/", "e">> >>,
      << <<"/", "e", "/", "x">> >>,
      << >> }

DepthSet == {1, 2}

CwdSet == { <<"/", "w">>, <<"/", "e", "/", "w">> }

\* no configuration file, no command run yet
NoFile == [exists |-> FALSE, parses |-> FALSE, content |-> Encode(DefaultConfig)]

NoCmd ==
    [op |-> "none", name |-> "", src |-> "", force |-> FALSE, err |-> "",
     called |-> FALSE, loaded |-> NoConfig, fileBefore |-> NoFile, report |-> {}]

IdleStore ==
    /\ cfgFile = NoFile
    /\ cfg = NoConfig
    /\ cmd = NoCmd

\* no command is at a prompt
NoPrompt == [cmd |-> "none"]

\* no run has started
IdleSteps ==
    /\ fs = FreshFs
    /\ fs0 = FreshFs
    /\ editors = 0
    /\ pc = "idle"
    /\ ti = 0
    /\ log = <<>>
    /\ exit = "running"

\* no invocations run side by side
NoInvocations == <<>>

IdleRun == prompt = NoPrompt /\ inv = NoInvocations /\ IdleSteps

NoResult == [via |-> "none"]

IdlePath ==
    /\ rawPath = <<>>
    /\ pv = [ForbiddenPaths |-> <<>>, MaxDepth |-> 1]
    /\ cwd = Root
    /\ vres = NoResult

-----------------------------------------------------------------------------
(* the path validator as a state machine: one validation of one input *)

InitPath ==
    /\ rawPath \in RawPaths
    /\ pv \in [ForbiddenPaths : ForbiddenLists, MaxDepth : DepthSet]
    /\ cwd \in CwdSet
    /\ vres = NoResult
    /\ IdleMerge
    /\ IdleStore
    /\ IdleRun

\* pathValidator.ValidatePath(rawPath), called directly
CallValidatePath ==
    /\ vres = NoResult
    /\ vres' = [via |-> "direct", target |-> rawPath] @@ ValidatePath(pv, rawPath, cwd)
    /\ UNCHANGED <<rawPath, pv, cwd, notPath>>

\* executeMkcd's first two steps: determineTargetPath(rawPath), then
\* pathValidator.ValidatePath(targetPath)
CallMkcdValidate ==
    /\ vres = NoResult
    /\ \E temp \in BOOLEAN :
         LET targetPath == determineTargetPath(rawPath, temp, DefaultTempDir, cwd)
         IN  vres' = [via |-> "mkcd", target |-> targetPath]
                        @@ ValidatePath(pv, targetPath, cwd)
    /\ UNCHANGED <<rawPath, pv, cwd, notPath>>

NextPath == CallValidatePath \/ CallMkcdValidate

SpecPath == InitPath /\ [][NextPath]_vars

-----------------------------------------------------------------------------
(* Properties of the path validator *)

Validated == vres.via # "none"

\* the named ('/'-separated, non-empty) elements of a path
Elems(path) == SelectSeq(Split(path), LAMBDA e : e # <<>>)

\* the path has a parent-directory element ".."
HasDotDotElem(path) == \E i \in 1..Len(Split(path)) : Split(path)[i] = DotDot

\* a is a proper initial run of b
ProperInitialRun(a, b) == Len(a) < Len(b) /\ SubSeq(b, 1, Len(a)) = a

\* C8: a raw path with a ".." element anywhere in it is rejected by the
\* validation, whether the validator is called on it directly or through the
\* mkcd command's target-path resolution.
C8_DotDotRejected ==
    (Validated /\ HasDotDotElem(rawPath)) => vres.err # "ok"

\* C9: a path that passes every other rule is accepted when it has exactly
\* MaxDepth named elements and rejected for its depth when it has MaxDepth + 1.
C9_DepthBoundary ==
    (vres.via = "direct" /\ vres.err \in {"ok", "depth"}) =>
        /\ Len(Elems(vres.clean)) = pv.MaxDepth => vres.err = "ok"
        /\ Len(Elems(vres.clean)) = pv.MaxDepth + 1 => vres.err = "depth"

\* the path reached the forbidden-path check (it passed SanitizePath)
ReachedForbiddenCheck == Validated /\ vres.err \notin {"dotdot", "empty"}

\* C10 as stated: a path is rejected by the forbidden-prefix check exactly
\* when it equals a forbidden prefix or lies under one, element by element,
\* for every forbidden prefix, "/" included.
C10_NestedUnderAnyPrefix ==
    ReachedForbiddenCheck =>
        (vres.err = "forbidden" <=>
            \E i \in 1..Len(pv.ForbiddenPaths) :
                LET f == pv.ForbiddenPaths[i]
                IN  \/ vres.abs = f
                    \/ ProperInitialRun(Elems(f), Elems(vres.abs)))

\* C10 amended: a path is rejected by the forbidden-prefix check exactly when
\* it equals a forbidden prefix or continues it with a separator, that is when
\* the prefix's elements, the empty ones included, are a proper initial run of
\* the path's; a prefix ending in a separator ("/") rejects only itself.
C10_ForbiddenAtSeparator ==
    ReachedForbiddenCheck =>
        (vres.err = "forbidden" <=>
            \E i \in 1..Len(pv.ForbiddenPaths) :
                LET f == pv.ForbiddenPaths[i]
                IN  \/ vres.abs = f
                    \/ ProperInitialRun(Split(f), Split(vres.abs)))

\* C10 witness: with "/e" forbidden, "/e/x" has been rejected as forbidden
C10_Witness ==
    /\ Validated
    /\ \E i \in 1..Len(pv.ForbiddenPaths) : pv.ForbiddenPaths[i] = <<"/", "e">>
    /\ vres.abs = <<"/", "e", "/", "x">>
    /\ vres.err = "forbidden"

-----------------------------------------------------------------------------
(* the merger as a state machine: one merge of one profile with one set of flags *)

\* the profiles the merge is tried on: every combination of the fields
MergeProfiles ==
    [Git : BOOLEAN, Editor : BOOLEAN, Readme : BOOLEAN,
     Gitignore : {"", "node"}, Template : {"", "nodejs"},
     Touch : {<<>>, <<"package.json", "index.js">>}, License : {"", "mit"}]

\* the flag settings the merge is tried on
MergeFlags ==
    { [NoFlags EXCEPT !.gitInit = g, !.editorFlag = e, !.editorName = n,
                      !.readme = r, !.gitignore = i, !.template = t,
                      !.license = l, !.touchFiles = tf] :
        g \in BOOLEAN, e \in BOOLEAN, n \in {"", "vim"}, r \in BOOLEAN,
        i \in {"", "python"}, t \in {"", "go"}, l \in {"", "apache-2.0"},
        tf \in {<<>>, <<"a.txt">>} }

InitMerge ==
    /\ profileConfig \in MergeProfiles
    /\ flags \in MergeFlags
    /\ mkcdConfig = NoPlan
    /\ IdlePath
    /\ IdleStore
    /\ IdleRun

\* runMkcd: mergedConfig := mergeConfigWithFlags(profileConfig)
Merge ==
    /\ ~mkcdConfig.merged
    /\ mkcdConfig' = mergeConfigWithFlags(profileConfig, flags)
    /\ UNCHANGED <<flags, profileConfig, notMerge>>

\* the next invocation: other flags, another profile
NextInvocation ==
    /\ mkcdConfig.merged
    /\ profileConfig' \in {ProfileDefault, ProfileDev, ProfileNodejs, ProfilePython}
    /\ flags' \in {NoFlags, [NoFlags EXCEPT !.gitignore = "python"]}
    /\ mkcdConfig' = NoPlan
    /\ UNCHANGED notMerge

NextMerge == Merge \/ NextInvocation

SpecMerge == InitMerge /\ [][NextMerge]_vars

\* C6: each boolean option of the merged plan (version control, editor launch,
\* readme) is the OR of the invocation's request and the profile's flag, so a
\* profile value of true gives true whatever the invocation says. The
\* invocation requests the editor with --open-editor or by naming one.
C6_BooleansAreOr ==
    mkcdConfig.merged =>
        /\ mkcdConfig.Git = (flags.gitInit \/ profileConfig.Git)
        /\ mkcdConfig.Readme = (flags.readme \/ profileConfig.Readme)
        /\ mkcdConfig.Editor =
               ((flags.editorFlag \/ flags.editorName # "") \/ profileConfig.Editor)
        /\ profileConfig.Git => mkcdConfig.Git
        /\ profileConfig.Readme => mkcdConfig.Readme
        /\ profileConfig.Editor => mkcdConfig.Editor

\* C6 witness: the profile enables version control, the invocation does not
\* ask for it, and the merged plan has it
C6_Witness ==
    /\ mkcdConfig.merged
    /\ profileConfig.Git /\ ~flags.gitInit
    /\ mkcdConfig.Git
    /\ ~profileConfig.Readme /\ ~flags.readme /\ ~mkcdConfig.Readme

\* the value of a string option: the invocation's when not empty, else the profile's
Chosen(flagValue, profileValue) == IF flagValue # "" THEN flagValue ELSE profileValue

\* C7: each string or list option takes the invocation's value when that is
\* not empty, whatever the profile holds, and the profile's otherwise; the
\* touch list is one layer's list whole, never both joined; an option that
\* only the invocation has is the invocation's value.
C7_InvocationWinsElseProfile ==
    mkcdConfig.merged =>
        /\ mkcdConfig.Gitignore = Chosen(flags.gitignore, profileConfig.Gitignore)
        /\ mkcdConfig.Template = Chosen(flags.template, profileConfig.Template)
        /\ mkcdConfig.License = Chosen(flags.license, profileConfig.License)
        /\ mkcdConfig.Touch =
               (IF flags.touchFiles # <<>> THEN flags.touchFiles ELSE profileConfig.Touch)
        /\ mkcdConfig.GitRemote = flags.gitRemote
        /\ mkcdConfig.Symlink = flags.symlink
        /\ (profileConfig = ProfileNodejs /\ flags = [NoFlags EXCEPT !.gitignore = "python"])
              => /\ mkcdConfig.Gitignore = "python"
                 /\ mkcdConfig.Touch = <<"package.json", "index.js">>

\* C7 witness: the nodejs profile merged with --gitignore python
C7_Witness ==
    /\ mkcdConfig.merged
    /\ profileConfig = ProfileNodejs
    /\ flags = [NoFlags EXCEPT !.gitignore = "python"]
    /\ mkcdConfig.Gitignore = "python"
    /\ mkcdConfig.Touch = <<"package.json", "index.js">>

-----------------------------------------------------------------------------
(* the profile commands as a state machine: each command is one process that
   loads the file, changes the registry in memory and saves the file *)

\* a profile a user makes with `profile create`
ProfileWeb ==
    [Git |-> TRUE, Editor |-> FALSE, Readme |-> TRUE, Gitignore |-> "node",
     Template |-> "web", Touch |-> <<"index.html">>, License |-> "mit"]

\* the profile names the commands are given
ArgNames == {"default", "dev", "web"}

\* a relative forbidden path, which Validate refuses
RelativeForbidden == << <<"e">> >>

\* the files a first command may find: none, one that does not parse, and
\* hand-written ones, valid or not
InitFiles ==
    {NoFile, [exists |-> TRUE, parses |-> FALSE, content |-> Encode(DefaultConfig)]}
    \cup
    { [exists |-> TRUE, parses |-> TRUE,
       content |-> [default_profile |-> dp, history_limit |-> hl, max_depth |-> md,
                    forbidden_paths |-> fp, profiles |-> ps]] :
        dp \in {{}, {""}, {"dev"}, {"web"}, {"go"}},
        hl \in {{}, {-1}}, md \in {{}, {0}}, fp \in {{}, {RelativeForbidden}},
        ps \in UNION { [d -> {ProfileDev, ProfileWeb}] : d \in SUBSET {"dev", "web"} } }

InitProfile ==
    /\ cfgFile \in InitFiles
    /\ cfg = NoConfig
    /\ cmd = NoCmd
    /\ IdlePath
    /\ IdleMerge
    /\ IdleRun

\* how a command ends: the Config it holds, the file it leaves, its record
Finish(op, name, src, force, err, called, loaded, c, file) ==
    /\ cfg' = c
    /\ cfgFile' = file
    /\ cmd' = [op |-> op, name |-> name, src |-> src, force |-> force, err |-> err,
               called |-> called, loaded |-> loaded, fileBefore |-> cfgFile,
               report |-> {}]
    /\ UNCHANGED notStore

\* cfg.Save at the end of a command: the file is written, or the write fails
\* and the command returns the error
SaveAndFinish(op, name, src, force, loaded, c) ==
    \/ Finish(op, name, src, force, "", TRUE, loaded, c, Save(c))
    \/ Finish(op, name, src, force, "save", TRUE, loaded, c, cfgFile)

\* runProfileCreate
RunProfileCreate ==
    \E profileName \in ArgNames, force \in BOOLEAN :
        LET l == Load(cfgFile)
            op == "create"
        IN  IF l.err # ""
            THEN Finish(op, profileName, "", force, "load", FALSE, NoConfig, NoConfig, cfgFile)
            ELSE IF profileName \in DOMAIN l.cfg.Profiles /\ ~force
            THEN Finish(op, profileName, "", force, "exists", FALSE, l.cfg, l.cfg, cfgFile)
            ELSE \* a prompt for the profile's settings fails
                 \/ Finish(op, profileName, "", force, "prompt", FALSE, l.cfg, l.cfg, cfgFile)
                 \* the answers make the profile (the defaults in quiet mode)
                 \/ \E profile \in {EmptyProfile, ProfileWeb} :
                      LET c1 == SetProfile(l.cfg, profileName, profile)
                      IN  IF c1.DefaultProfile = "" \/ c1.DefaultProfile = "default"
                          THEN \/ Finish(op, profileName, "", force, "prompt", TRUE,
                                         l.cfg, c1, cfgFile)
                               \/ \E makeDefault \in BOOLEAN :
                                    SaveAndFinish(op, profileName, "", force, l.cfg,
                                        IF makeDefault
                                        THEN [c1 EXCEPT !.DefaultProfile = profileName]
                                        ELSE c1)
                          ELSE SaveAndFinish(op, profileName, "", force, l.cfg, c1)

\* runProfileCopy
RunProfileCopy ==
    \E sourceProfile \in ArgNames, destProfile \in ArgNames, force \in BOOLEAN :
        LET l == Load(cfgFile)
            op == "copy"
        IN  IF l.err # ""
            THEN Finish(op, destProfile, sourceProfile, force, "load", FALSE,
                        NoConfig, NoConfig, cfgFile)
            ELSE IF sourceProfile \notin DOMAIN l.cfg.Profiles
            THEN Finish(op, destProfile, sourceProfile, force, "notfound", FALSE,
                        l.cfg, l.cfg, cfgFile)
            ELSE IF destProfile \in DOMAIN l.cfg.Profiles /\ ~force
            THEN Finish(op, destProfile, sourceProfile, force, "exists", FALSE,
                        l.cfg, l.cfg, cfgFile)
            ELSE SaveAndFinish(op, destProfile, sourceProfile, force, l.cfg,
                     SetProfile(l.cfg, destProfile, l.cfg.Profiles[sourceProfile]))

\* runProfileDelete
RunProfileDelete ==
    \E profileName \in ArgNames, force \in BOOLEAN :
        LET l == Load(cfgFile)
            op == "delete"
        IN  IF l.err # ""
            THEN Finish(op, profileName, "", force, "load", FALSE, NoConfig, NoConfig, cfgFile)
            ELSE IF profileName \notin DOMAIN l.cfg.Profiles
            THEN Finish(op, profileName, "", force, "notfound", FALSE, l.cfg, l.cfg, cfgFile)
            ELSE \* without --force the user is asked, and may decline
                 \/ /\ ~force
                    /\ Finish(op, profileName, "", force, "cancelled", FALSE,
                              l.cfg, l.cfg, cfgFile)
                 \/ LET d == DeleteProfile(l.cfg, profileName)
                    IN  IF d.err # ""
                        THEN Finish(op, profileName, "", force, d.err, TRUE,
                                    l.cfg, d.cfg, cfgFile)
                        ELSE SaveAndFinish(op, profileName, "", force, l.cfg, d.cfg)

\* runConfigValidate: what it reports of a configuration file. Load's error
\* names the parse failure or the first rule Validate found broken; after a
\* successful Load the default profile, the template directory and the
\* temporary directory are looked at and every finding is listed. err is
\* "load" when the command returns its "invalid configuration" error
ValidationReport(file, templateDirMissing, tempDirMissing) ==
    LET l == Load(file)
    IN  IF l.err = "parse" THEN [err |-> "load", report |-> {"parse"}]
        ELSE IF l.err # ""
        THEN [err |-> "load", report |-> {Validate(Decode(file.content))}]
        ELSE [err |-> "",
              report |-> (IF l.cfg.DefaultProfile # ""
                             /\ l.cfg.DefaultProfile \notin DOMAIN l.cfg.Profiles
                          THEN {"default_profile"} ELSE {})
                         \cup (IF templateDirMissing THEN {"template_dir"} ELSE {})
                         \cup (IF tempDirMissing THEN {"temp_dir"} ELSE {})]

\* mkcd config validate
RunConfigValidate ==
    \E templateDirMissing \in BOOLEAN, tempDirMissing \in BOOLEAN :
        LET l == Load(cfgFile)
            v == ValidationReport(cfgFile, templateDirMissing, tempDirMissing)
        IN  /\ cfg' = l.cfg
            /\ cmd' = [op |-> "validate", name |-> "", src |-> "", force |-> FALSE,
                       err |-> v.err, called |-> FALSE, loaded |-> l.cfg,
                       fileBefore |-> cfgFile, report |-> v.report]
            /\ UNCHANGED <<cfgFile, notStore>>

NextProfile ==
    \/ RunProfileCreate
    \/ RunProfileCopy
    \/ RunProfileDelete
    \/ RunConfigValidate

SpecProfile == InitProfile /\ [][NextProfile]_vars

\* the last command got a Config from Load
HoldsConfig == cmd.op # "none" /\ cmd.err # "load"

\* C1: in the Config a profile command holds when it ends (loaded, then
\* changed by create, copy or delete, whether that succeeded or failed), the
\* default profile name, if not empty, names a profile of the registry.
C1_DefaultProfileExists ==
    HoldsConfig =>
        (cfg.DefaultProfile # "" => cfg.DefaultProfile \in DOMAIN cfg.Profiles)

\* C1 witness: a create made its new profile the default, and a later delete
\* of a profile that is not the default succeeded
C1_Witness ==
    /\ cmd.op = "delete" /\ cmd.err = ""
    /\ cfg.DefaultProfile = "web"
    /\ "web" \in DOMAIN cfg.Profiles
    /\ cmd.name \notin DOMAIN cfg.Profiles

\* C2: DeleteProfile called with the name of the default profile returns an
\* error, and the registry, the default designation and the file are as before.
C2_DeleteDefaultRefused ==
    (cmd.op = "delete" /\ cmd.called /\ cmd.name = cmd.loaded.DefaultProfile) =>
        /\ cmd.err = "conflict"
        /\ cfg = cmd.loaded
        /\ cfgFile = cmd.fileBefore

\* C2 witness: the confirmed delete of the default profile was refused
C2_Witness ==
    /\ cmd.op = "delete" /\ cmd.called
    /\ cmd.name = cmd.loaded.DefaultProfile
    /\ cmd.name \in DOMAIN cfg.Profiles
    /\ cmd.err = "conflict"

-----------------------------------------------------------------------------
(* the run as a state machine: one invocation of mkcd <directory> [flags] *)

\* the directory names: "p", and "../e", which resolves to the forbidden "/e"
RunDirNames == { <<"p">>, <<".", ".", "/", "e">> }

RunCwd == <<"/", "w">>

\* what the run may find at the target path: nothing; a project directory
\* with files, a repository and a remote; a regular file
ExistingProject ==
    [FreshFs EXCEPT !.target = "dir",
                    !.files = [n \in FileNames |->
                                  IF n \in {"a.txt", "README.md"} THEN "data" ELSE "absent"],
                    !.repo = TRUE, !.remote = "url0", !.commits = 1]

RunFilesystems ==
    { FreshFs, [FreshFs EXCEPT !.src = TRUE], ExistingProject,
      [ExistingProject EXCEPT !.src = TRUE], [FreshFs EXCEPT !.target = "file"] }

\* the flags of the invocations: cobra refuses --symlink with --git-remote
RunFlags ==
    LET all == { [NoFlags EXCEPT !.gitInit = g, !.gitRemote = r, !.readme = d,
                                 !.license = l, !.editorFlag = e, !.touchFiles = tf,
                                 !.symlink = sl, !.dryRun = dry, !.force = fo,
                                 !.interactive = ia, !.quiet = q] :
                   g \in BOOLEAN, r \in {"", "url1"}, d \in BOOLEAN, l \in {"", "mit"},
                   e \in BOOLEAN, tf \in {<<>>, <<"a.txt", "b.txt">>},
                   sl \in {"", "src"}, dry \in BOOLEAN, fo \in BOOLEAN,
                   ia \in BOOLEAN, q \in BOOLEAN }
    IN  { f \in all : ~(f.symlink # "" /\ f.gitRemote # "") }

InitRun ==
    /\ rawPath \in RunDirNames
    /\ pv = [ForbiddenPaths |-> DefaultConfig.ForbiddenPaths,
             MaxDepth |-> DefaultConfig.MaxDepth]
    /\ cwd = RunCwd
    /\ vres = NoResult
    /\ flags \in RunFlags
    /\ profileConfig \in {ProfileDefault, ProfileDev}
    /\ mkcdConfig = NoPlan
    /\ IdleStore
    /\ prompt = NoPrompt
    /\ inv = NoInvocations
    /\ fs \in RunFilesystems
    /\ fs0 = fs
    /\ editors = 0
    /\ pc = "start"
    /\ ti = 0
    /\ log = <<>>
    /\ exit = "running"

\* what a run never changes
runInputs == <<rawPath, pv, cwd, flags, profileConfig, storeVars, fs0, prompt, inv>>

\* the step has finished: the run goes on with the next planned step
GoOn(step, entry) ==
    /\ log' = Append(log, entry)
    /\ pc' = NextAfter(step, mkcdConfig, flags)
    /\ exit' = exit

\* the step has failed and executeMkcd returns its error: exit code 1
AbortExitsZero(entry) ==
    /\ log' = Append(log, entry)
    /\ pc' = "done"
    /\ exit' = "ok"

Abort(entry) ==
    /\ log' = Append(log, entry)
    /\ pc' = "done"
    /\ exit' = "error"

\* runMkcd: the profile and the flags are merged into the plan
StartRun ==
    /\ pc = "start"
    /\ mkcdConfig' = mergeConfigWithFlags(profileConfig, flags)
    /\ pc' = "resolve"
    /\ UNCHANGED <<runInputs, vres, fs, editors, ti, log, exit>>

\* executeMkcd: targetPath, err := determineTargetPath(dirName, mkcdConfig, cfg)
ResolveStep ==
    /\ pc = "resolve"
    /\ vres' = [via |-> "resolved", err |-> "", clean |-> <<>>, abs |-> <<>>,
                target |-> determineTargetPath(rawPath, mkcdConfig.Temp,
                                               DefaultTempDir, cwd)]
    /\ GoOn("resolve", Entry("resolve", "ok", "", flags))
    /\ UNCHANGED <<runInputs, mkcdConfig, fs, editors, ti>>

\* executeMkcd: pathValidator.ValidatePath(targetPath), and force
ValidateStep ==
    /\ pc = "validate"
    /\ LET r == ValidatePath(pv, vres.target, cwd)
           gate == ValidationGate(r.err, flags.force)
       IN  /\ vres' = [via |-> "mkcd", target |-> vres.target] @@ r
           /\ CASE gate = "abort" -> Abort(Entry("validate", "fail", "", flags))
                [] gate = "warn" -> GoOn("validate", Entry("validate", "warn", "", flags))
                [] OTHER -> GoOn("validate", Entry("validate", "ok", "", flags))
    /\ UNCHANGED <<runInputs, mkcdConfig, fs, editors, ti>>

\* executeMkcd: outputMgr.Confirm(..., true) when interactive and not dry-run.
\* The log line tells whether the user was asked
ConfirmStepGoesOn ==
    /\ pc = "confirm"
    /\ \E input \in {"yes", "no", "error"} :
         LET r == Confirm(NewOutputManager(flags), TRUE, input)
             arg == IF r.asked THEN "asked" ELSE "default"
         IN  IF r.err # "" THEN Abort(Entry("confirm", "fail", arg, flags))
             ELSE GoOn("confirm", Entry("confirm", IF r.value THEN "ok" ELSE "cancel",
                                        arg, flags))
    /\ UNCHANGED <<runInputs, vres, mkcdConfig, fs, editors, ti>>

ConfirmStep ==
    /\ pc = "confirm"
    /\ \E input \in {"yes", "no", "error"} :
         LET r == Confirm(NewOutputManager(flags), TRUE, input)
             arg == IF r.asked THEN "asked" ELSE "default"
         IN  IF r.err # "" THEN Abort(Entry("confirm", "fail", arg, flags))
             ELSE IF ~r.value
             THEN /\ log' = Append(log, Entry("confirm", "cancel", arg, flags))
                  /\ pc' = "done"
                  /\ exit' = "ok"
             ELSE GoOn("confirm", Entry("confirm", "ok", arg, flags))
    /\ UNCHANGED <<runInputs, vres, mkcdConfig, fs, editors, ti>>

\* createDirectoryStructure: the symlink and nothing else, or the directory
MkdirStep ==
    /\ pc = "mkdir"
    /\ \E oserr \in BOOLEAN :
         LET fsOps == NewFileSystemOperations(flags)
             r == IF mkcdConfig.Symlink # "" THEN CreateSymlink(fsOps, fs, oserr)
                  ELSE CreateDirectory(fsOps, fs, oserr)
             arg == IF mkcdConfig.Symlink # "" THEN "symlink" ELSE "directory"
         IN  /\ fs' = r.fs
             /\ IF r.err # "" THEN Abort(Entry("mkdir", "fail", arg, flags))
                ELSE GoOn("mkdir", Entry("mkdir", r.how, arg, flags))
    /\ UNCHANGED <<runInputs, vres, mkcdConfig, editors, ti>>

\* createDirectoryStructure: one turn of the loop over mkcdConfig.Touch; a
\* failure is a warning
TouchStepHard ==
    /\ pc = "touch"
    /\ ti < Len(mkcdConfig.Touch)
    /\ \E oserr \in BOOLEAN :
         LET fileName == mkcdConfig.Touch[ti + 1]
             r == CreateFile(NewFileSystemOperations(flags), fs, fileName, "empty", oserr)
         IN  /\ fs' = r.fs
             /\ ti' = ti + 1
             /\ IF r.err # "" THEN Abort(Entry("touch", "fail", fileName, flags))
                ELSE /\ log' = Append(log, Entry("touch", r.how, fileName, flags))
                     /\ pc' = IF ti' = Len(mkcdConfig.Touch)
                              THEN NextAfter("touch", mkcdConfig, flags) ELSE "touch"
                     /\ exit' = exit
    /\ UNCHANGED <<runInputs, vres, mkcdConfig, editors>>

TouchStep ==
    /\ pc = "touch"
    /\ ti < Len(mkcdConfig.Touch)
    /\ \E oserr \in BOOLEAN :
         LET fileName == mkcdConfig.Touch[ti + 1]
             r == CreateFile(NewFileSystemOperations(flags), fs, fileName, "empty", oserr)
         IN  /\ fs' = r.fs
             /\ log' = Append(log, Entry("touch", IF r.err # "" THEN "warn" ELSE r.how,
                                         fileName, flags))
    /\ ti' = ti + 1
    /\ pc' = IF ti' = Len(mkcdConfig.Touch) THEN NextAfter("touch", mkcdConfig, flags)
             ELSE "touch"
    /\ UNCHANGED <<runInputs, vres, mkcdConfig, editors, exit>>

\* generateProjectFiles: one of its three documents; a failure is returned
DocStepSoft(step) ==
    /\ pc = step
    /\ \E oserr \in BOOLEAN :
         LET r == GenerateDocument(NewFileSystemOperations(flags), fs, step, oserr)
         IN  /\ fs' = r.fs
             /\ GoOn(step, Entry(step, IF r.err # "" THEN "warn" ELSE r.how,
                                 DocFile(step), flags))
    /\ UNCHANGED <<runInputs, vres, mkcdConfig, editors, ti>>

DocStep(step) ==
    /\ pc = step
    /\ \E oserr \in BOOLEAN :
         LET r == GenerateDocument(NewFileSystemOperations(flags), fs, step, oserr)
         IN  /\ fs' = r.fs
             /\ IF r.err # "" THEN Abort(Entry(step, "fail", DocFile(step), flags))
                ELSE GoOn(step, Entry(step, r.how, DocFile(step), flags))
    /\ UNCHANGED <<runInputs, vres, mkcdConfig, editors, ti>>

ReadmeStep == DocStep("readme")

GitignoreStep == DocStep("gitignore")

LicenseStep == DocStep("license")

\* executeMkcd: gitMgr.InitRepository; a failure is returned
GitInitStep ==
    /\ pc = "gitinit"
    /\ \E oserr \in BOOLEAN :
         LET r == InitRepository(NewManager(flags), fs, oserr)
         IN  /\ fs' = r.fs
             /\ IF r.err # "" THEN Abort(Entry("gitinit", "fail", "", flags))
                ELSE GoOn("gitinit", Entry("gitinit", r.how, "", flags))
    /\ UNCHANGED <<runInputs, vres, mkcdConfig, editors, ti>>

\* executeMkcd: gitMgr.AddRemote; a failure is returned
RemoteStep ==
    /\ pc = "remote"
    /\ \E oserr \in BOOLEAN :
         LET r == AddRemote(NewManager(flags), fs, mkcdConfig.GitRemote, oserr)
         IN  /\ fs' = r.fs
             /\ IF r.err # "" THEN Abort(Entry("remote", "fail", "", flags))
                ELSE GoOn("remote", Entry("remote", r.how, "", flags))
    /\ UNCHANGED <<runInputs, vres, mkcdConfig, editors, ti>>

\* executeMkcd: gitMgr.CreateInitialCommit; a failure is a warning
CommitStepHard ==
    /\ pc = "commit"
    /\ \E oserr \in BOOLEAN :
         LET r == CreateInitialCommit(NewManager(flags), fs, oserr)
         IN  /\ fs' = r.fs
             /\ IF r.err # "" THEN Abort(Entry("commit", "fail", "", flags))
                ELSE GoOn("commit", Entry("commit", r.how, "", flags))
    /\ UNCHANGED <<runInputs, vres, mkcdConfig, editors, ti>>

CommitStep ==
    /\ pc = "commit"
    /\ \E oserr \in BOOLEAN :
         LET r == CreateInitialCommit(NewManager(flags), fs, oserr)
         IN  /\ fs' = r.fs
             /\ GoOn("commit", Entry("commit", IF r.err # "" THEN "warn" ELSE r.how,
                                     "", flags))
    /\ UNCHANGED <<runInputs, vres, mkcdConfig, editors, ti>>

\* executeMkcd: openInEditor; a failure is a warning
EditorStepHard ==
    /\ pc = "editor"
    /\ \E found \in BOOLEAN, oserr \in BOOLEAN, exitErr \in BOOLEAN :
         LET r == Launch(NewManager(flags), fs, found, oserr, exitErr)
         IN  /\ editors' = editors + r.started
             /\ IF r.err # "" THEN Abort(Entry("editor", "fail", "", flags))
                ELSE GoOn("editor", Entry("editor", r.how, "", flags))
    /\ UNCHANGED <<runInputs, vres, mkcdConfig, fs, ti>>

EditorStep ==
    /\ pc = "editor"
    /\ \E found \in BOOLEAN, oserr \in BOOLEAN, exitErr \in BOOLEAN :
         LET r == Launch(NewManager(flags), fs, found, oserr, exitErr)
         IN  /\ editors' = editors + r.started
             /\ GoOn("editor", Entry("editor", IF r.err # "" THEN "warn" ELSE r.how,
                                     "", flags))
    /\ UNCHANGED <<runInputs, vres, mkcdConfig, fs, ti>>

\* executeMkcd: generateShellScript prints "cd <targetPath>"; the run returns nil
EmitStep ==
    /\ pc = "emit"
    /\ log' = Append(log, Entry("emit", "ok", "", flags))
    /\ pc' = "done"
    /\ exit' = "ok"
    /\ UNCHANGED <<runInputs, vres, mkcdConfig, fs, editors, ti>>

NextRun ==
    \/ StartRun
    \/ ResolveStep
    \/ ValidateStep
    \/ ConfirmStep
    \/ MkdirStep
    \/ TouchStep
    \/ ReadmeStep
    \/ GitignoreStep
    \/ LicenseStep
    \/ GitInitStep
    \/ RemoteStep
    \/ CommitStep
    \/ EditorStep
    \/ EmitStep

SpecRun == InitRun /\ [][NextRun]_vars

-----------------------------------------------------------------------------
(* properties of the run *)

\* the steps that change the filesystem, the repository or start a process
MutatingSteps ==
    {"mkdir", "touch", "readme", "gitignore", "license",
     "gitinit", "remote", "commit", "editor"}

\* the run has taken up a mutating step, or left a trace of one
Mutated ==
    \/ \E i \in DOMAIN log : log[i].step \in MutatingSteps
    \/ fs # fs0
    \/ editors > 0

\* the validation of the target path has been done and has rejected it
Rejected == vres.via = "mkcd" /\ vres.err # "ok"

\* C3: no mutating step (directory or symlink, touch files, documents, git
\* init/remote/commit, editor) is taken up, and nothing is changed, unless
\* the target path passed validation or force is set; a rejection without
\* force ends the run with an error
C3_NoMutationUnlessValidatedOrForce ==
    /\ Mutated => vres.via = "mkcd" /\ (vres.err = "ok" \/ flags.force)
    /\ (Rejected /\ ~flags.force) => (pc = "done" /\ exit = "error")

\* a target path has been rejected without force and the run is over
C3_Witness ==
    /\ Rejected
    /\ ~flags.force
    /\ exit = "error"
    /\ Len(mkcdConfig.Touch) > 0
    /\ mkcdConfig.Git

\* the order the steps are to occur in
FixedOrder ==
    << "resolve", "validate", "confirm", "mkdir", "touch",
       "readme", "gitignore", "license", "gitinit", "remote", "commit",
       "editor", "emit" >>

Rank(step) == CHOOSE k \in DOMAIN FixedOrder : FixedOrder[k] = step

\* the position of a file in the plan's touch list
TouchIndex(name) == CHOOSE k \in DOMAIN mkcdConfig.Touch : mkcdConfig.Touch[k] = name

\* the step of log line i is finished by line j: a touch by the plan's last file
Finishes(s, j) ==
    /\ log[j].step = s
    /\ s = "touch" => log[j].arg = mkcdConfig.Touch[Len(mkcdConfig.Touch)]

\* C4: the steps of a run occur in the fixed order resolve, validate,
\* confirm, directory or symlink, touch files, readme, ignore file, license,
\* git init, remote, commit, editor, emit; and a step starts only when every
\* earlier step of the plan has finished
C4_FixedStepOrder ==
    /\ \A i, j \in DOMAIN log :
         i < j => \/ Rank(log[i].step) < Rank(log[j].step)
                  \/ /\ log[i].step = "touch"
                     /\ log[j].step = "touch"
                     /\ TouchIndex(log[i].arg) < TouchIndex(log[j].arg)
    /\ \A j \in DOMAIN log :
         \A k \in 1..(Rank(log[j].step) - 1) :
            Planned(FixedOrder[k], mkcdConfig, flags)
                => \E i \in 1..(j - 1) : Finishes(FixedOrder[k], i)

\* a run that took every one of the thirteen steps, both touch files included
C4_Witness ==
    /\ pc = "done"
    /\ exit = "ok"
    /\ \A k \in DOMAIN FixedOrder : \E i \in DOMAIN log : log[i].step = FixedOrder[k]
    /\ Len(log) = Len(FixedOrder) + 1

\* a dry run that went through to its end
CompleteDryRun == flags.dryRun /\ pc = "done" /\ exit = "ok"

\* the mutating steps of the plan: the files of the touch list one by one
PlannedReports ==
    { <<s, "">> : s \in {t \in MutatingSteps \ {"touch", "mkdir"} :
                            Planned(t, mkcdConfig, flags)} }
    \cup { <<"mkdir", a>> : a \in {IF mkcdConfig.Symlink # "" THEN "symlink"
                                   ELSE "directory"} }
    \cup { <<"touch", mkcdConfig.Touch[k]>> :
             k \in IF Planned("touch", mkcdConfig, flags)
                   THEN DOMAIN mkcdConfig.Touch ELSE {} }

\* the log has a report of the step: "would ..." or the warning of its failure
Reported(r) ==
    \E i \in DOMAIN log :
        /\ log[i].step = r[1]
        /\ r[1] \in {"touch", "mkdir"} => log[i].arg = r[2]
        /\ log[i].how \in {"dry", "warn"}

\* the report of the step reached the terminal
Shown(r) ==
    \E i \in DOMAIN log :
        /\ log[i].step = r[1]
        /\ r[1] \in {"touch", "mkdir"} => log[i].arg = r[2]
        /\ log[i].how \in {"dry", "warn"}
        /\ log[i].shown

\* the filesystem is as the run found it and no editor process was started
NoTrace == fs = fs0 /\ editors = 0

\* C5 as stated: a complete dry run leaves the filesystem as it was, starts
\* no editor, and each planned step is reported to the user
C5_DryRunReportsEveryStep ==
    CompleteDryRun => NoTrace /\ \A r \in PlannedReports : Shown(r)

\* C5: a complete dry run leaves the filesystem (directories, files,
\* symlinks, repository) as it was and starts no editor; each planned step
\* issues its report, which reaches the terminal unless quiet is set
C5_DryRunLeavesNoTrace ==
    CompleteDryRun =>
        /\ NoTrace
        /\ \A r \in PlannedReports : Reported(r)
        /\ ~flags.quiet => \A r \in PlannedReports : Shown(r)

\* a complete dry run over an existing project, with every kind of step planned
C5_Witness ==
    /\ CompleteDryRun
    /\ fs0 = ExistingProject
    /\ Cardinality(PlannedReports) = 10
    /\ ~flags.quiet

-----------------------------------------------------------------------------
(* the order of the validator's rules *)

\* the rules the validated path breaks: normalization, and for a path that
\* normalizes, each of the three checks on its own
Normalizes == SanitizePath(vres.target).err = "ok"

CleanTarget == SanitizePath(vres.target).clean

BreaksForbidden == Normalizes /\ checkForbiddenPaths(pv, GetAbsolutePath(CleanTarget, cwd))

BreaksDepth == Normalizes /\ checkPathDepth(pv, CleanTarget)

BreaksChars == Normalizes /\ checkDangerousCharacters(CleanTarget)

\* C11 as stated: the first violated rule is reported in the order
\* normalization, depth, forbidden prefix, characters; a path both too deep
\* and under a forbidden prefix is reported as a depth violation
C11_DepthBeforeForbidden ==
    Validated =>
        /\ ~Normalizes => vres.err \in {"dotdot", "empty"}
        /\ BreaksDepth => vres.err = "depth"
        /\ (BreaksForbidden /\ ~BreaksDepth) => vres.err = "forbidden"
        /\ (BreaksChars /\ ~BreaksDepth /\ ~BreaksForbidden) => vres.err = "chars"

\* C11: the first violated rule is reported in the order normalization
\* (empty / ".."), forbidden prefix, depth, characters; a path both too deep
\* and under a forbidden prefix is reported as a forbidden-path violation
C11_ForbiddenBeforeDepth ==
    Validated =>
        /\ ~Normalizes => vres.err \in {"dotdot", "empty"}
        /\ BreaksForbidden => vres.err = "forbidden"
        /\ (BreaksDepth /\ ~BreaksForbidden) => vres.err = "depth"
        /\ (BreaksChars /\ ~BreaksDepth /\ ~BreaksForbidden) => vres.err = "chars"
        /\ (Normalizes /\ ~BreaksDepth /\ ~BreaksForbidden /\ ~BreaksChars)
               => vres.err = "ok"

\* a validated path that is too deep, under a forbidden prefix and has a
\* dangerous character, all at once
C11_Witness ==
    /\ Validated
    /\ BreaksForbidden
    /\ BreaksDepth
    /\ BreaksChars

-----------------------------------------------------------------------------
(* directory creation on a path that exists *)

\* the run has got to its directory creation (not a symlink, not a dry run)
\* and line i of the log is what came of it
MkdirAt(i) ==
    /\ i \in DOMAIN log
    /\ log[i].step = "mkdir"
    /\ log[i].arg = "directory"
    /\ ~flags.dryRun

\* FileSystemOperations of a real run
RealOps == [DryRun |-> FALSE, Backup |-> flags.backup]

\* C12: directory creation on a path that is a directory succeeds and
\* changes nothing, so that repeating it changes nothing either; on a path
\* that is something else it fails, leaves the path as it is and the run
\* ends there with an error
C12_MkdirIdempotent ==
    /\ \A i \in DOMAIN log :
         MkdirAt(i) =>
            /\ fs0.target = "dir" =>
                  /\ log[i].how = "noop"
                  /\ i = Len(log) => (fs = fs0 /\ exit = "running" /\ pc # "done")
            /\ fs0.target = "file" =>
                  /\ log[i].how = "fail"
                  /\ i = Len(log)
                  /\ fs = fs0
                  /\ pc = "done"
                  /\ exit = "error"
    /\ \A oserr \in BOOLEAN :
         /\ fs.target = "dir" => CreateDirectory(RealOps, fs, oserr) = Ok("noop", fs)
         /\ fs.target = "file" =>
               LET r == CreateDirectory(RealOps, fs, oserr)
               IN  r.err # "" /\ r.fs = fs

\* the run found a directory at the target and has just gone past creating it
C12_Witness ==
    /\ MkdirAt(Len(log))
    /\ fs0 = ExistingProject
    /\ log[Len(log)].how = "noop"

-----------------------------------------------------------------------------
(* dry run against the real run *)

\* what the real run's first mutating step comes to on the filesystem the
\* run found, when the operating system refuses nothing: "fail" (the target
\* is not a directory, the symlink's target is missing), "noop" (the
\* directory exists already) or "did"
RealOutcome ==
    IF mkcdConfig.Symlink # "" THEN CreateSymlink(RealOps, fs0, FALSE).how
    ELSE CreateDirectory(RealOps, fs0, FALSE).how

\* C13: a dry run reports for its directory or symlink step the outcome the
\* real run has for the same plan and filesystem: the directory exists
\* already, or the step fails (target a non-directory, symlink target
\* missing) and the run ends with an error
C13_DryRunEvaluatesPreconditions ==
    \A i \in DOMAIN log :
        (flags.dryRun /\ log[i].step = "mkdir") =>
            /\ RealOutcome = "noop" => log[i].how = "noop"
            /\ RealOutcome = "fail" => (log[i].how = "fail" /\ exit = "error")

-----------------------------------------------------------------------------
(* hard and soft failures of the steps *)

\* a step has failed with an error that executeMkcd returns
HardFailed == \E i \in DOMAIN log : log[i].how = "fail"

\* line i of the log is the warning of a failed step
WarnedAt(i, step) == i \in DOMAIN log /\ log[i].step = step /\ log[i].how = "warn"

\* the run has taken up the step
Taken(step) == \E i \in DOMAIN log : log[i].step = step

\* every planned step after the given one, the final path included, was taken
LaterStepsTaken(step) ==
    \A k \in (Rank(step) + 1)..Len(FixedOrder) :
        Planned(FixedOrder[k], mkcdConfig, flags) => Taken(FixedOrder[k])

\* C14: a failure to create a touch file is a warning (shown unless quiet):
\* the run does not end there, the other touch files are attempted and the
\* later steps of the plan run; the run ends well unless a later step fails
C14_TouchFailureIsSoft ==
    \A i \in DOMAIN log :
      /\ log[i].step = "touch" => log[i].how # "fail"
      /\ WarnedAt(i, "touch") =>
            /\ log[i].shown = ~flags.quiet
            /\ exit = "error" => (HardFailed /\ log[Len(log)].step # "touch")
            /\ pc = "done" =>
                  \A k \in DOMAIN mkcdConfig.Touch :
                     \E j \in DOMAIN log :
                        log[j].step = "touch" /\ log[j].arg = mkcdConfig.Touch[k]
            /\ (pc = "done" /\ ~HardFailed) =>
                  (exit = "ok" /\ LaterStepsTaken("touch"))

\* the first touch file failed, the second was created, the readme was
\* generated and the run ended well
C14_Witness ==
    /\ pc = "done"
    /\ exit = "ok"
    /\ \E i \in DOMAIN log : WarnedAt(i, "touch") /\ log[i].arg = "a.txt"
    /\ fs.files["b.txt"] = "empty"
    /\ fs.files["README.md"] = "generated"
    /\ fs0 = FreshFs

\* the three document steps
DocSteps == {"readme", "gitignore", "license"}

\* line i of the log is a step that failed, however the failure was handled
FailedAt(i) == i \in DOMAIN log /\ log[i].how \in {"warn", "fail"}

\* the run ended with line i of the log, with an error
EndedAt(i) == i = Len(log) /\ pc = "done" /\ exit = "error"

\* C15: when the generation of a requested document (readme, ignore file,
\* license) fails, the run ends there with an error: no later document, no
\* git step, no editor and no final path
C15_DocumentFailureIsHard ==
    \A i \in DOMAIN log :
        (log[i].step \in DocSteps /\ FailedAt(i)) =>
            /\ log[i].how = "fail"
            /\ EndedAt(i)
            /\ \A k \in (Rank(log[i].step) + 1)..Len(FixedOrder) : ~Taken(FixedOrder[k])
            /\ editors = 0

\* the readme failed with the ignore file, the license, git and the editor
\* all in the plan
C15_Witness ==
    /\ \E i \in DOMAIN log : log[i].step = "readme" /\ FailedAt(i)
    /\ \A s \in {"gitignore", "license", "gitinit", "commit", "editor"} :
          Planned(s, mkcdConfig, flags)
    /\ pc = "done"

\* C16: a failure of the repository initialization or of the remote-add
\* ends the run there with an error, before any later step; a failure of
\* the initial commit is a warning (shown unless quiet) and the run goes on
\* to the editor and the final path
C16_InitRemoteHardCommitSoft ==
    \A i \in DOMAIN log :
        /\ (log[i].step \in {"gitinit", "remote"} /\ FailedAt(i)) =>
              /\ log[i].how = "fail"
              /\ EndedAt(i)
              /\ \A k \in (Rank(log[i].step) + 1)..Len(FixedOrder) : ~Taken(FixedOrder[k])
              /\ editors = 0
        /\ (log[i].step = "commit" /\ FailedAt(i)) =>
              /\ log[i].how = "warn"
              /\ log[i].shown = ~flags.quiet
              /\ pc = "done" => (exit = "ok" /\ LaterStepsTaken("commit"))

\* the initial commit failed, the editor was started afterwards and the run
\* ended well
C16_Witness ==
    /\ \E i \in DOMAIN log : WarnedAt(i, "commit")
    /\ editors = 1
    /\ Taken("emit")
    /\ exit = "ok"

\* C17: a failure of the editor launch (no editor found, a problem with
\* the path, the start refused, an editor that exits with an error) never
\* fails the run: it is a warning (shown unless quiet) and the final path
\* is emitted
C17_EditorFailureIsSoft ==
    \A i \in DOMAIN log :
        (log[i].step = "editor" /\ FailedAt(i)) =>
            /\ log[i].how = "warn"
            /\ log[i].shown = ~flags.quiet
            /\ exit # "error"
            /\ pc = "done" => (exit = "ok" /\ log[Len(log)].step = "emit")

\* an editor that was started and exited with an error, in a run that then
\* emitted the final path
C17_Witness ==
    /\ \E i \in DOMAIN log : WarnedAt(i, "editor")
    /\ editors = 1
    /\ ~flags.quiet
    /\ pc = "done"
    /\ exit = "ok"

-----------------------------------------------------------------------------
(* what Load returns *)

\* the four validation conditions
HistoryLimitOk(c) == c.HistoryLimit >= 0

MaxDepthOk(c) == c.MaxDepth >= 1

DefaultProfileOk(c) == c.DefaultProfile = "" \/ c.DefaultProfile \in DOMAIN c.Profiles

ForbiddenPathsOk(c) ==
    \A i \in DOMAIN c.ForbiddenPaths :
        Len(c.ForbiddenPaths[i]) > 0 /\ c.ForbiddenPaths[i][1] = Sep

FourConditions(c) ==
    HistoryLimitOk(c) /\ MaxDepthOk(c) /\ DefaultProfileOk(c) /\ ForbiddenPathsOk(c)

\* a command has run, and so has its Load
Ran == cmd.op # "none"

\* C18: the configuration a command gets from Load, the defaults for a
\* missing file or a parsed file, meets the four validation conditions; when
\* the file does not parse or its configuration breaks a condition, Load
\* fails and the command has no configuration at all
C18_LoadedConfigIsValid ==
    Ran =>
        /\ cmd.err # "load" => (cmd.loaded # NoConfig /\ FourConditions(cmd.loaded))
        /\ cmd.err = "load" => (cmd.loaded = NoConfig /\ cfg = NoConfig)
        /\ cmd.err = "load" <=>
              /\ cmd.fileBefore.exists
              /\ \/ ~cmd.fileBefore.parses
                 \/ ~FourConditions(Decode(cmd.fileBefore.content))
        /\ ~cmd.fileBefore.exists => cmd.loaded = DefaultConfig

\* a command that loaded a hand-written file naming its own default profile
C18_Witness ==
    /\ Ran
    /\ cmd.fileBefore.exists
    /\ cmd.fileBefore \in InitFiles
    /\ cmd.loaded # NoConfig
    /\ cmd.loaded.DefaultProfile = "web"

-----------------------------------------------------------------------------
(* the validation report *)

\* the conditions a configuration breaks, by the names the report uses
Violations(c) ==
    (IF HistoryLimitOk(c) THEN {} ELSE {"history_limit"})
    \cup (IF MaxDepthOk(c) THEN {} ELSE {"max_depth"})
    \cup (IF DefaultProfileOk(c) THEN {} ELSE {"default_profile"})
    \cup (IF ForbiddenPathsOk(c) THEN {} ELSE {"forbidden_paths"})

\* C19: config validate reports every validation condition the file's
\* configuration breaks, not only the first
C19_ReportCollectsAll ==
    (cmd.op = "validate" /\ cmd.fileBefore.exists /\ cmd.fileBefore.parses) =>
        Violations(Decode(cmd.fileBefore.content)) \subseteq cmd.report

-----------------------------------------------------------------------------
(* saving and loading again *)

\* the file on disk is the command's configuration as Save wrote it
SavedConfig == cfg # NoConfig /\ cfgFile = Save(cfg)

\* C20: a valid configuration that was saved is loaded again, by the next
\* command, equal in all fields, the set of profile names included, and
\* saving what was loaded gives the same file
C20_SaveLoadRoundTrip ==
    [][SavedConfig =>
          /\ cmd'.loaded = cfg
          /\ DOMAIN cmd'.loaded.Profiles = DOMAIN cfg.Profiles
          /\ Save(cmd'.loaded) = cfgFile]_vars

\* the last command deleted its profile and saved the registry
Deleted == cmd.op = "delete" /\ cmd.err = "" /\ cmd.called /\ cfgFile = Save(cfg)

\* C24: after a profile that is not the default was deleted and the
\* registry saved, the registry the next command loads does not hold that
\* profile, whatever its name, the built-in names included
C24_DeletePersists ==
    [][Deleted =>
          /\ cmd.name \notin DOMAIN cfg.Profiles
          /\ cmd'.err # "load"
          /\ cmd.name \notin DOMAIN cmd'.loaded.Profiles]_vars

\* the last command left its Config as it was loaded and the file as it found it
NothingChanged == cfg = cmd.loaded /\ cfgFile = cmd.fileBefore

\* C28: profile create onto an existing name without force, profile copy
\* onto an existing destination without force and profile copy from a
\* missing source each fail, and the registry in memory and the file are as
\* before; a successful copy makes the destination equal to the source and
\* leaves the source and every other profile as they were
C28_RefusalsChangeNothing ==
    /\ (cmd.op = "create" /\ HoldsConfig /\ ~cmd.force
           /\ cmd.name \in DOMAIN cmd.loaded.Profiles) =>
          (cmd.err = "exists" /\ NothingChanged)
    /\ (cmd.op = "copy" /\ HoldsConfig /\ cmd.src \notin DOMAIN cmd.loaded.Profiles) =>
          (cmd.err = "notfound" /\ NothingChanged)
    /\ (cmd.op = "copy" /\ HoldsConfig /\ ~cmd.force
           /\ cmd.src \in DOMAIN cmd.loaded.Profiles
           /\ cmd.name \in DOMAIN cmd.loaded.Profiles) =>
          (cmd.err = "exists" /\ NothingChanged)
    /\ (cmd.op = "copy" /\ cmd.err = "") =>
          /\ DOMAIN cfg.Profiles = DOMAIN cmd.loaded.Profiles \cup {cmd.name}
          /\ cfg.Profiles[cmd.name] = cmd.loaded.Profiles[cmd.src]
          /\ \A n \in DOMAIN cmd.loaded.Profiles \ {cmd.name} :
                cfg.Profiles[n] = cmd.loaded.Profiles[n]
          /\ cfgFile = Save(cfg)

\* a forced copy of web onto dev, which held something else
C28_Witness ==
    /\ cmd.op = "copy" /\ cmd.err = ""
    /\ cmd.src = "web" /\ cmd.name = "dev"
    /\ cmd.loaded.Profiles["dev"] # cmd.loaded.Profiles["web"]
    /\ cfg.Profiles["dev"] = ProfileWeb

\* a copy from a source that no profile of the registry has
C28_WitnessRefused ==
    /\ cmd.op = "copy" /\ cmd.err = "notfound"
    /\ cmd.fileBefore.exists

-----------------------------------------------------------------------------
(* the selection of the profile: Config.GetProfile, and runMkcd's use of it *)

\* the values of --profile; "go" is a name no registry has
SelectNames == {"", "dev", "web", "go"}

\* Configs GetProfile is called on directly: the defaults, with the default
\* profile set, unset, and naming a profile that is not registered
DirectConfigs ==
    { [DefaultConfig EXCEPT !.DefaultProfile = dp, !.Profiles = ps] :
        dp \in {"", "dev", "web"},
        ps \in { DefaultConfig.Profiles, ("web" :> ProfileWeb) @@ DefaultConfig.Profiles } }

\* a profile no registry of the model holds, to tell a selection from none
Unselected ==
    [Git |-> FALSE, Editor |-> FALSE, Readme |-> FALSE, Gitignore |-> "",
     Template |-> "unselected", Touch |-> <<>>, License |-> ""]

InitSelect ==
    /\ cfgFile \in InitFiles
    /\ cfg = NoConfig
    /\ cmd = NoCmd
    /\ flags \in { [NoFlags EXCEPT !.profile = n] : n \in SelectNames }
    /\ profileConfig = Unselected
    /\ mkcdConfig = NoPlan
    /\ IdlePath
    /\ IdleRun

\* how GetProfile's caller ends
Selected(op, name, err, loaded, p) ==
    /\ cfg' = loaded
    /\ cmd' = [op |-> op, name |-> name, src |-> "", force |-> FALSE, err |-> err,
               called |-> TRUE, loaded |-> loaded, fileBefore |-> cfgFile,
               report |-> {}]
    /\ profileConfig' = p
    /\ UNCHANGED <<cfgFile, flags, mkcdConfig, pathVars, runVars, prompt, inv>>

\* cfg.GetProfile(name) on a Config
CallGetProfile ==
    /\ cmd.op = "none"
    /\ \E c \in DirectConfigs, name \in SelectNames :
         LET g == GetProfile(c, name)
         IN  Selected("getprofile", name, g.err, c,
                      IF g.err = "" THEN g.profile ELSE profileConfig)

\* runMkcd: Load, then the profile --profile names, or the default profile
\* and the empty profile when there is none
SelectProfile ==
    /\ cmd.op = "none"
    /\ LET l == Load(cfgFile)
       IN  IF l.err # ""
           THEN /\ cfg' = NoConfig
                /\ cmd' = [NoCmd EXCEPT !.op = "mkcd", !.name = flags.profile,
                                        !.err = "load", !.fileBefore = cfgFile]
                /\ UNCHANGED <<cfgFile, mergeVars, pathVars, runVars, prompt, inv>>
           ELSE IF flags.profile # ""
           THEN LET g == GetProfile(l.cfg, flags.profile)
                IN  Selected("mkcd", flags.profile, g.err, l.cfg,
                             IF g.err = "" THEN g.profile ELSE profileConfig)
           ELSE LET g == GetProfile(l.cfg, l.cfg.DefaultProfile)
                IN  Selected("mkcd", "", "", l.cfg,
                             IF g.err = "" THEN g.profile ELSE EmptyProfile)

NextSelect == CallGetProfile \/ SelectProfile

SpecSelect == InitSelect /\ [][NextSelect]_vars

\* the Config's default profile is set and registered
HasDefault(c) == c.DefaultProfile # "" /\ c.DefaultProfile \in DOMAIN c.Profiles

\* C21: GetProfile with an empty name gives the registry's default profile,
\* and a not-found error when the default is unset or not registered; an
\* mkcd run without --profile then goes on with the empty profile and does
\* not fail
C21_EmptyNameIsDefault ==
    /\ (cmd.op = "getprofile" /\ cmd.name = "") =>
          IF HasDefault(cfg)
          THEN cmd.err = "" /\ profileConfig = cfg.Profiles[cfg.DefaultProfile]
          ELSE cmd.err = "notfound"
    /\ (cmd.op = "mkcd" /\ cmd.name = "" /\ cmd.err # "load") =>
          /\ cmd.err = ""
          /\ profileConfig = IF HasDefault(cfg) THEN cfg.Profiles[cfg.DefaultProfile]
                             ELSE EmptyProfile

\* an mkcd run without --profile on a file whose default profile is unset
C21_Witness ==
    /\ cmd.op = "mkcd"
    /\ cmd.name = ""
    /\ cmd.err = ""
    /\ cfg.DefaultProfile = ""
    /\ profileConfig = EmptyProfile

\* the steps whose failure ends the run, and those whose failure is a warning
HardSteps == {"mkdir", "readme", "gitignore", "license", "gitinit", "remote"}

SoftSteps == {"touch", "commit", "editor"}

\* the lines of the log that print the final "cd <target>"
Emits == {i \in DOMAIN log : log[i].step = "emit"}

\* a step of the soft kind has failed
SoftFailed == \E i \in DOMAIN log : log[i].step \in SoftSteps /\ FailedAt(i)

\* C23: a hard failure (validation rejection without force, directory or
\* symlink, document, repository init, remote) ends the run with a non-zero
\* exit code and without the final "cd <target>"; a finished run whose only
\* failures are soft (touch file, initial commit, editor) exits 0 and has
\* printed the final "cd <target>" exactly once, as its last output
C23_HardFailsSoftGoesOn ==
    /\ \A i \in DOMAIN log :
          /\ (log[i].step \in HardSteps /\ FailedAt(i)) => log[i].how = "fail"
          /\ (log[i].step = "validate" /\ FailedAt(i) /\ ~flags.force) =>
                log[i].how = "fail"
          /\ (log[i].step \in SoftSteps /\ FailedAt(i)) => log[i].how = "warn"
          /\ log[i].how = "fail" => (EndedAt(i) /\ Emits = {})
    /\ exit = "error" => (HardFailed /\ Emits = {})
    /\ (pc = "done" /\ SoftFailed /\ ~HardFailed) =>
          /\ exit = "ok"
          /\ Emits = {Len(log)}
          /\ log[Len(log)].shown
    /\ Cardinality(Emits) <= 1

\* a touch file, the initial commit and the editor all failed, and the run
\* ended with the final path and exit code 0
C23_Witness ==
    /\ pc = "done"
    /\ exit = "ok"
    /\ \A s \in SoftSteps : \E i \in DOMAIN log : WarnedAt(i, s)
    /\ Emits = {Len(log)}

\* C25: a touch file that exists when the run starts keeps its content: the
\* touch step neither truncates nor overwrites it
C25_TouchKeepsContent ==
    \A i \in DOMAIN log :
        (log[i].step = "touch" /\ fs0.files[log[i].arg] # "absent") =>
            fs.files[log[i].arg] = fs0.files[log[i].arg]

\* the run is past the merge and its plan names a symlink target
LinkRun == pc # "start" /\ mkcdConfig.Symlink # ""

\* C26: when the plan sets a symlink target, the run creates the symlink and
\* neither creates a directory nor any touch file, whatever the touch list;
\* the documents, the git steps and the editor of the plan still run
C26_SymlinkReplacesDirectory ==
    LinkRun =>
        /\ \A i \in DOMAIN log :
              /\ log[i].step = "mkdir" => log[i].arg = "symlink"
              /\ log[i].step # "touch"
        /\ fs.target = "dir" => fs0.target = "dir"
        /\ \A n \in RunTouchNames : fs.files[n] = fs0.files[n]
        /\ (pc = "done" /\ exit = "ok" /\ Emits # {}) =>
              /\ mkcdConfig.Readme => Taken("readme")
              /\ mkcdConfig.Gitignore # "" => Taken("gitignore")
              /\ mkcdConfig.License # "" => Taken("license")
              /\ mkcdConfig.Git => (Taken("gitinit") /\ Taken("commit"))
              /\ mkcdConfig.Editor => Taken("editor")

\* a symlink was made with two touch files in the plan, and the readme, the
\* repository and the editor followed
C26_Witness ==
    /\ LinkRun
    /\ Len(mkcdConfig.Touch) = 2
    /\ pc = "done"
    /\ exit = "ok"
    /\ fs.target = "link"
    /\ fs.files["README.md"] = "generated"
    /\ fs.repo
    /\ Taken("editor")

\* line i of the log is the user's "no" to the confirmation
DeclinedAt(i) == i \in DOMAIN log /\ log[i].step = "confirm" /\ log[i].how = "cancel"

\* C29: when the confirmation of an interactive run that is not a dry run
\* is declined, the run ends there with exit code 0: no mutating step, nothing
\* changed, no editor and no final "cd <target>"; a dry run does not ask
C29_DeclineEndsQuietly ==
    /\ \A i \in DOMAIN log :
          DeclinedAt(i) =>
              /\ flags.interactive /\ ~flags.dryRun
              /\ log[i].arg = "asked"
              /\ i = Len(log)
              /\ pc = "done"
              /\ exit = "ok"
              /\ ~Mutated
              /\ NoTrace
              /\ Emits = {}
    /\ flags.dryRun => ~Taken("confirm")
    /\ (flags.interactive /\ ~flags.dryRun /\ Taken("mkdir")) =>
          \E i \in DOMAIN log : log[i].step = "confirm" /\ log[i].how = "ok"

\* the user declined a run that had a directory, touch files, a repository
\* and an editor in its plan
C29_Witness ==
    /\ DeclinedAt(Len(log))
    /\ pc = "done"
    /\ Planned("touch", mkcdConfig, flags)
    /\ mkcdConfig.Git /\ mkcdConfig.Editor
    /\ fs0 = FreshFs

\* C30: after AddRemote has returned success in a run that is not a dry
\* run, the repository's remote of the configured name has the URL asked
\* for, whatever the repository held before
C30_RemoteHasRequestedUrl ==
    \A i \in DOMAIN log :
        (log[i].step = "remote" /\ log[i].how \in {"did", "noop"}) =>
            fs.remote = mkcdConfig.GitRemote

------------------------------------------------------------------------------
(* the prompts of the commands: which questions a command puts to the user,
   in which order, and where it waits for the terminal *)

PromptCommands == {"mkcd", "profile create", "profile delete", "config reset"}

PConfirm(defaultValue) == [kind |-> "confirm", defaultValue |-> defaultValue]
PSelect(options) == [kind |-> "select", options |-> options]
PInput(defaultValue) == [kind |-> "input", defaultValue |-> defaultValue]

\* the option lists of runProfileCreate
templateOptions == <<"", "basic-dev", "nodejs", "python", "go", "web">>
gitignoreOptions == <<"", "general", "go", "node", "python">>
licenseOptions == <<"", "mit", "apache-2.0">>

\* the calls of Confirm, Select and Input a command makes, in order, when no
\* answer ends it early
Prompts(p) ==
    CASE p.cmd = "mkcd" ->
           IF p.interactive /\ ~p.dryRun THEN <<PConfirm(TRUE)>> ELSE <<>>
      [] p.cmd \in {"profile delete", "config reset"} ->
           IF ~p.force THEN <<PConfirm(FALSE)>> ELSE <<>>
      [] OTHER ->
           <<PConfirm(FALSE), PConfirm(FALSE), PConfirm(FALSE),
             PSelect(templateOptions), PSelect(gitignoreOptions),
             PSelect(licenseOptions), PInput("")>>
           \o (IF p.asksDefault THEN <<PConfirm(FALSE)>> ELSE <<>>)

\* what the terminal can deliver to a prompt
Answers(q) ==
    CASE q.kind = "confirm" -> {"yes", "no", "error"}
      [] q.kind = "select" -> {q.options[i] : i \in 1..Len(q.options)} \cup {"error"}
      [] OTHER -> {"", "a.txt", "error"}

\* the call of the output manager that puts question q
Ask(om, q, input) ==
    CASE q.kind = "confirm" -> Confirm(om, q.defaultValue, input)
      [] q.kind = "select" -> Select(om, q.options, input)
      [] OTHER -> Input(om, q.defaultValue, input)

\* mkcd, profile delete and config reset return when their confirmation is
\* declined; profile create only records its answers
Declined(p, r) == p.cmd # "profile create" /\ r.value = FALSE

InitPrompt ==
    /\ prompt \in [cmd : PromptCommands, quiet : BOOLEAN, force : BOOLEAN,
                    interactive : BOOLEAN, dryRun : BOOLEAN, asksDefault : BOOLEAN,
                    at : {1}, waiting : {FALSE}, asked : {0}, results : {<<>>},
                    status : {"running"}]
    /\ IdlePath
    /\ IdleMerge
    /\ IdleStore
    /\ IdleSteps
    /\ inv = NoInvocations

\* the command goes on after the result r of its question number p.at
Answered(p, r) ==
    prompt' = [p EXCEPT !.waiting = FALSE,
                        !.results = Append(@, r.value),
                        !.at = @ + 1,
                        !.status = IF r.err # "" THEN "failed"
                                   ELSE IF Declined(p, r) THEN "cancelled"
                                   ELSE "running"]

\* the command reaches its next call of Confirm, Select or Input: the call
\* returns at once, or shows the prompt and waits for the terminal
CallPrompt ==
    /\ prompt.status = "running"
    /\ ~prompt.waiting
    /\ prompt.at <= Len(Prompts(prompt))
    /\ LET q == Prompts(prompt)[prompt.at]
           r == Ask([Quiet |-> prompt.quiet], q, CHOOSE a \in Answers(q) : TRUE)
       IN  IF r.asked
           THEN prompt' = [prompt EXCEPT !.waiting = TRUE, !.asked = @ + 1]
           ELSE Answered(prompt, r)
    /\ UNCHANGED <<pathVars, mergeVars, storeVars, runVars, inv>>

\* the terminal delivers an answer, or fails, and the shown prompt returns
AnswerPrompt ==
    /\ prompt.status = "running"
    /\ prompt.waiting
    /\ LET q == Prompts(prompt)[prompt.at]
       IN  \E input \in Answers(q) :
             Answered(prompt, Ask([Quiet |-> prompt.quiet], q, input))
    /\ UNCHANGED <<pathVars, mergeVars, storeVars, runVars, inv>>

\* the command has got through its prompts and does its work
FinishPrompts ==
    /\ prompt.status = "running"
    /\ ~prompt.waiting
    /\ prompt.at > Len(Prompts(prompt))
    /\ prompt' = [prompt EXCEPT !.status = "done"]
    /\ UNCHANGED <<pathVars, mergeVars, storeVars, runVars, inv>>

NextPrompt == CallPrompt \/ AnswerPrompt \/ FinishPrompts

SpecPrompt == InitPrompt /\ [][NextPrompt]_vars

\* what question q gives without asking: the default, or the first option
Unasked(q) == IF q.kind = "select" THEN q.options[1] ELSE q.defaultValue

\* C22: in quiet mode confirm returns its default value, select its first
\* option and input its default, none of them waiting for the terminal: a
\* quiet command is never waiting at a prompt, has shown none, and has not
\* failed at one
C22_QuietNeverWaits ==
    prompt.quiet =>
        /\ ~prompt.waiting
        /\ prompt.asked = 0
        /\ prompt.status # "failed"
        /\ \A i \in 1..Len(prompt.results) :
              prompt.results[i] = Unasked(Prompts(prompt)[i])

\* a quiet profile creation that has got through all eight questions
C22_Witness ==
    /\ prompt.quiet
    /\ prompt.cmd = "profile create"
    /\ prompt.status = "done"
    /\ Len(prompt.results) = 8


------------------------------------------------------------------------------
(* two profile commands on the same configuration file at the same time:
   each loads the file, changes its own Config and saves it. Nothing in Load
   or Save locks the file, so the steps of the two interleave freely *)

Procs == {1, 2}

ConcNames == {"dev", "web", "api"}

\* the commands an invocation may be: [op, name, src, force, makeDefault]
ConcCommands ==
    [op : {"create"}, name : ConcNames, src : {""}, force : BOOLEAN,
     makeDefault : BOOLEAN]
    \cup [op : {"copy"}, name : ConcNames, src : {"dev", "web"}, force : BOOLEAN,
          makeDefault : {FALSE}]
    \cup [op : {"delete"}, name : ConcNames, src : {""}, force : {TRUE},
          makeDefault : {FALSE}]

\* the files the two invocations may find
ConcFiles == {NoFile, Save(DefaultConfig), Save(SetProfile(DefaultConfig, "web", ProfileWeb))}

\* os.Create: the file exists and is empty, which decodes to the defaults
Truncated ==
    [exists |-> TRUE, parses |-> TRUE,
     content |-> [default_profile |-> {}, history_limit |-> {}, max_depth |-> {},
                  forbidden_paths |-> {}, profiles |-> <<>>]]

InitConcurrent ==
    /\ cfgFile \in ConcFiles
    /\ cfg = NoConfig
    /\ cmd = NoCmd
    /\ \E c1 \in ConcCommands, c2 \in ConcCommands :
         /\ c1.name # c2.name
         /\ inv = [p \in Procs |->
                     [at |-> "load", command |-> IF p = 1 THEN c1 ELSE c2,
                      cfg |-> NoConfig, err |-> ""]]
    /\ prompt = NoPrompt
    /\ IdlePath
    /\ IdleMerge
    /\ IdleSteps

\* the invocation goes on to at, holding c, or has ended with err
Goes(p, at, c, err) ==
    inv' = [inv EXCEPT ![p] = [@ EXCEPT !.at = at, !.cfg = c, !.err = err]]

\* cfg, err := config.Load(cfgFile), the first statement of each command
ConcLoad(p) ==
    /\ inv[p].at = "load"
    /\ LET l == Load(cfgFile)
       IN  IF l.err # "" THEN Goes(p, "done", NoConfig, "load")
           ELSE Goes(p, "change", l.cfg, "")
    /\ UNCHANGED <<pathVars, mergeVars, storeVars, runVars, prompt>>

\* the command's checks and its SetProfile or DeleteProfile on its own Config
ConcChange(p) ==
    /\ inv[p].at = "change"
    /\ LET c == inv[p].cfg
           k == inv[p].command
       IN  CASE k.op = "create" ->
                  IF k.name \in DOMAIN c.Profiles /\ ~k.force
                  THEN Goes(p, "done", c, "exists")
                  ELSE LET c1 == SetProfile(c, k.name, ProfileWeb)
                       IN  Goes(p, "create",
                                IF c1.DefaultProfile \in {"", "default"} /\ k.makeDefault
                                THEN [c1 EXCEPT !.DefaultProfile = k.name] ELSE c1, "")
             [] k.op = "copy" ->
                  IF k.src \notin DOMAIN c.Profiles THEN Goes(p, "done", c, "notfound")
                  ELSE IF k.name \in DOMAIN c.Profiles /\ ~k.force
                  THEN Goes(p, "done", c, "exists")
                  ELSE Goes(p, "create", SetProfile(c, k.name, c.Profiles[k.src]), "")
             [] OTHER ->
                  IF k.name \notin DOMAIN c.Profiles THEN Goes(p, "done", c, "notfound")
                  ELSE LET d == DeleteProfile(c, k.name)
                       IN  IF d.err # "" THEN Goes(p, "done", d.cfg, d.err)
                           ELSE Goes(p, "create", d.cfg, "")
    /\ UNCHANGED <<pathVars, mergeVars, storeVars, runVars, prompt>>

\* Config.Save: os.Create(configPath) truncates the file, or fails
ConcCreate(p) ==
    /\ inv[p].at = "create"
    /\ \/ /\ cfgFile' = Truncated
          /\ Goes(p, "encode", inv[p].cfg, "")
       \/ /\ cfgFile' = cfgFile
          /\ Goes(p, "done", inv[p].cfg, "save")
    /\ UNCHANGED <<pathVars, mergeVars, cfg, cmd, runVars, prompt>>

\* Config.Save: encoder.Encode(c) writes the invocation's Config
ConcEncode(p) ==
    /\ inv[p].at = "encode"
    /\ cfgFile' = Save(inv[p].cfg)
    /\ Goes(p, "done", inv[p].cfg, "")
    /\ UNCHANGED <<pathVars, mergeVars, cfg, cmd, runVars, prompt>>

NextConcurrent ==
    \E p \in Procs : ConcLoad(p) \/ ConcChange(p) \/ ConcCreate(p) \/ ConcEncode(p)

SpecConcurrent == InitConcurrent /\ [][NextConcurrent]_vars

\* the invocation ended well, having saved its change
Succeeded(p) == inv[p].at = "done" /\ inv[p].err = ""

\* the registry in the file has the change of invocation p
Persisted(p) ==
    LET ps == cfgFile.content.profiles
        k == inv[p].command
    IN  IF k.op = "delete" THEN k.name \notin DOMAIN ps
        ELSE k.name \in DOMAIN ps /\ ps[k.name] = inv[p].cfg.Profiles[k.name]

\* C27: when two invocations that change different profiles have both ended
\* well, the registry in the file has both changes, however their steps
\* interleaved
C27_NoLostUpdate ==
    (\A p \in Procs : Succeeded(p)) => (\A p \in Procs : Persisted(p))

====
